---------------------------- MODULE Spec2Model ----------------------------
(***************************************************************************)
(* A model of lasagne/updates.py: the functions that build Theano update   *)
(* dictionaries (sgd, momentum, ..., cocob, yellow_fin, the decorators and  *)
(* combinators), and the execution of such a dictionary as one training    *)
(* step.                                                                   *)
(*                                                                         *)
(* A Theano expression is modelled as a syntax tree (a tuple whose first   *)
(* element names the operation); a shared variable is a cell <<role, i>>;  *)
(* an OrderedDict is a sequence of <<key, value>> pairs in insertion       *)
(* order.  Tensors are rank-0: every rule's arithmetic is elementwise.     *)
(* Numbers are exact rationals <<n, d>> (d = 0 encodes the IEEE specials   *)
(* +inf, -inf and nan).                                                    *)
(***************************************************************************)
EXTENDS Integers, Sequences, FiniteSets, TLC

VARIABLES
    phase,      \* "start" before the call, "built" after it returned a
                \* dictionary, "evaluated" after a norm constraint gave
                \* its value, "raised" after it raised
    call,       \* the arguments of the one top-level call
    returned,   \* the OrderedDict the call returned, or the value of the
                \* tensors a norm constraint returned
    err,        \* the exception the call raised, "none" otherwise
    created,    \* the cells the call created with theano.shared
    given,      \* the dictionaries a combinator was handed, as they are
                \* after the call
    store,      \* the current value of every shared variable
    steps,      \* how many times the compiled function has been executed
    history     \* the gradient values of the executed steps, oldest first

vars == <<phase, call, returned, err, created, given, store, steps, history>>

---------------------------------------------------------------------------
(* Bounds of the model *)

MaxSteps == 3

MaxPeriod == 2

MaxBurnout == 2

WindowWidth == 2

\* the tensors handed to norm_constraint have 0..MaxRank axes
MaxRank == 6

---------------------------------------------------------------------------
(* Exact rational arithmetic, standing for the tensor engine's scalars *)

Abs(x) == IF x < 0 THEN -x ELSE x

Sign(x) == IF x < 0 THEN -1 ELSE IF x > 0 THEN 1 ELSE 0

Min(a, b) == IF a <= b THEN a ELSE b

Max(a, b) == IF a >= b THEN a ELSE b

RECURSIVE GCD(_, _)
GCD(a, b) == IF b = 0 THEN a ELSE GCD(b, a % b)

\* The engine computes in finite precision: a number is kept exactly while
\* numerator and denominator fit Precision, and is otherwise rounded towards
\* zero to a denominator that makes it fit; beyond the range it is infinite.
Precision == 16384

Rounded(sign, n, d) ==
    LET k == (d \div Precision) + 1
        n1 == n \div k
        d1 == Max(1, d \div k)
        m == n1 \div d1
        d2 == Precision \div (m + 1)
        n2 == m * d2 + ((n1 % d1) * d2) \div d1
        g == GCD(n2, d2)
    IN  IF m >= Precision THEN <<sign, 0>>
        ELSE <<sign * (n2 \div g), d2 \div g>>

\* the number n/d in lowest terms with a positive denominator
Q(n, d) ==
    IF d = 0 THEN <<Sign(n), 0>>
    ELSE LET g == GCD(Abs(n), Abs(d))
             nn == Abs(n) \div g
             dd == Abs(d) \div g
         IN  IF nn <= Precision /\ dd <= Precision
             THEN <<Sign(d) * Sign(n) * nn, dd>>
             ELSE Rounded(Sign(d) * Sign(n), nn, dd)

Zero == <<0, 1>>

One == <<1, 1>>

NaN == <<0, 0>>

IsNaN(a) == a = NaN

IsFinite(a) == a[2] # 0

RAdd(a, b) ==
    IF IsFinite(a) /\ IsFinite(b) THEN Q(a[1] * b[2] + b[1] * a[2], a[2] * b[2])
    ELSE IF IsNaN(a) \/ IsNaN(b) THEN NaN
    ELSE IF IsFinite(b) THEN a
    ELSE IF IsFinite(a) THEN b
    ELSE IF a = b THEN a ELSE NaN

RNeg(a) == <<-a[1], a[2]>>

RSub(a, b) == RAdd(a, RNeg(b))

RMul(a, b) == Q(a[1] * b[1], a[2] * b[2])

RDiv(a, b) ==
    IF IsFinite(a) /\ IsFinite(b) THEN Q(a[1] * b[2], a[2] * b[1])
    ELSE IF IsNaN(a) \/ IsNaN(b) THEN NaN
    ELSE IF IsFinite(a) THEN Zero
    ELSE IF IsFinite(b) THEN <<a[1] * (IF b[1] < 0 THEN -1 ELSE 1), 0>>
    ELSE NaN

RLt(a, b) ==
    IF IsNaN(a) \/ IsNaN(b) THEN FALSE
    ELSE IF IsFinite(a) \/ IsFinite(b) THEN a[1] * b[2] < b[1] * a[2]
    ELSE a[1] < b[1]

RLe(a, b) == ~IsNaN(a) /\ ~IsNaN(b) /\ ~RLt(b, a)

RGe(a, b) == RLe(b, a)

RMax(a, b) == IF IsNaN(a) \/ IsNaN(b) THEN NaN ELSE IF RLt(a, b) THEN b ELSE a

RMin(a, b) == IF IsNaN(a) \/ IsNaN(b) THEN NaN ELSE IF RLt(b, a) THEN b ELSE a

RAbs(a) == <<Abs(a[1]), a[2]>>

RClip(a, lo, hi) == RMin(RMax(a, lo), hi)

RECURSIVE RPowInt(_, _)
RPowInt(a, k) == IF k = 0 THEN One ELSE RMul(a, RPowInt(a, k - 1))


\* floor of the square root of a natural number, by bisection
RECURSIVE ISqrtBetween(_, _, _)
ISqrtBetween(n, lo, hi) ==
    IF lo >= hi THEN lo
    ELSE LET mid == (lo + hi + 1) \div 2
         IN  IF mid * mid <= n THEN ISqrtBetween(n, mid, hi)
             ELSE ISqrtBetween(n, lo, mid - 1)

ISqrt(n) == ISqrtBetween(n, 0, Min(n, 46340))

\* floor of the cube root of a natural number, by bisection
RECURSIVE ICbrtBetween(_, _, _)
ICbrtBetween(n, lo, hi) ==
    IF lo >= hi THEN lo
    ELSE LET mid == (lo + hi + 1) \div 2
         IN  IF mid * mid * mid <= n THEN ICbrtBetween(n, mid, hi)
             ELSE ICbrtBetween(n, lo, mid - 1)

ICbrt(n) == ICbrtBetween(n, 0, Min(n, 1290))

\* The engine's sqrt is exact where the root is rational and is rounded to a
\* finite precision elsewhere, here down to a multiple of 1/RootGrid.
RootGrid == 16

RSqrt(a) ==
    IF IsNaN(a) \/ a[1] < 0 THEN NaN
    ELSE IF ~IsFinite(a) THEN a
    ELSE LET n == ISqrt(a[1])
             d == ISqrt(a[2])
         IN  IF n * n = a[1] /\ d * d = a[2] THEN Q(n, d)
             ELSE Q(ISqrt((a[1] * RootGrid * RootGrid) \div a[2]), RootGrid)

\* a ** (1/3), defined by the engine for a >= 0 only
RCbrt(a) ==
    IF IsNaN(a) \/ a[1] < 0 THEN NaN
    ELSE IF ~IsFinite(a) THEN a
    ELSE LET n == ICbrt(a[1])
             d == ICbrt(a[2])
         IN  IF n * n * n = a[1] /\ d * d * d = a[2] THEN Q(n, d)
             ELSE Q(ICbrt((a[1] * RootGrid * RootGrid * RootGrid) \div a[2]), RootGrid)

---------------------------------------------------------------------------
(* Python values *)

\* A name is bound to its value once: Value({body : x \in {e}}) is body with
\* x standing for the value of e, as after the assignment x = e.
Value(S) == CHOOSE x \in S : TRUE

\* an optional argument: None, or a value
None == <<>>

Some(x) == <<x>>

\* collections.OrderedDict as the sequence of its items
ODKeys(od) == {od[i][1] : i \in 1..Len(od)}

ODHas(od, k) == \E i \in 1..Len(od) : od[i][1] = k

ODIndex(od, k) == CHOOSE i \in 1..Len(od) : od[i][1] = k

ODGet(od, k) == od[ODIndex(od, k)][2]

\* od.get(k, default)
ODGetDefault(od, k, default) == IF ODHas(od, k) THEN ODGet(od, k) ELSE default

\* od[k] = v: a new key goes last, a present key keeps its place
ODSet(od, k, v) ==
    Value({IF ODHas(o, k) THEN [o EXCEPT ![ODIndex(o, k)] = <<k, v>>]
           ELSE Append(o, <<k, v>>) : o \in {od}})

\* od.update(other)
RECURSIVE ODUpdateFrom(_, _, _)
ODUpdateFrom(od, other, i) ==
    IF i > Len(other) THEN od
    ELSE ODUpdateFrom(ODSet(od, other[i][1], other[i][2]), other, i + 1)

ODUpdate(od, other) == ODUpdateFrom(od, other, 1)

\* list(od.keys())
ODKeyList(od) == [i \in 1..Len(od) |-> od[i][1]]

EmptyFn == [x \in {} |-> Zero]

---------------------------------------------------------------------------
(* Theano: shared variables and symbolic expressions *)

\* theano.shared(...): the cell of the given role and index
Shared(role, i) == <<role, i>>

\* a parameter that is an expression and no shared variable
NonShared(i) == <<"expression", i>>

\* isinstance(p, theano.compile.SharedVariable)
IsShared(p) == p[1] # "expression"

Const(q) == <<"const", q>>

\* the current value of a shared variable, read inside an expression
Var(c) == <<"shared", c>>

\* the k-th gradient expression the caller passed in
GradIn(k) == <<"grad", k>>

\* theano.grad(loss, wrt)
GradWrt(p) == <<"grad", p[2]>>

Add(a, b) == <<"add", a, b>>

Sub(a, b) == <<"sub", a, b>>

Mul(a, b) == <<"mul", a, b>>

Div(a, b) == <<"div", a, b>>

Sqr(a) == <<"sqr", a>>

Sqrt(a) == <<"sqrt", a>>

Pow(a, b) == <<"pow", a, b>>

AbsE(a) == <<"abs", a>>

Maximum(a, b) == <<"maximum", a, b>>

Minimum(a, b) == <<"minimum", a, b>>

Clip(a, lo, hi) == <<"clip", a, lo, hi>>

Ge(a, b) == <<"ge", a, b>>

IfElse(c, a, b) == <<"ifelse", c, a, b>>

Mod(a, b) == <<"mod", a, b>>

Inv(a) == <<"inv", a>>

\* T.set_subtensor(w[i], x)
SetSubtensor(w, i, x) == <<"set_subtensor", w, i, x>>

\* T.max(w[:t]) and T.min(w[:t])
MaxPrefix(w, t) == <<"max_prefix", w, t>>

MinPrefix(w, t) == <<"min_prefix", w, t>>

Bool(b) == IF b THEN One ELSE Zero

RECURSIVE RMaxOf(_, _)
RMaxOf(w, k) == IF k = 1 THEN w[1] ELSE RMax(RMaxOf(w, k - 1), w[k])

RECURSIVE RMinOf(_, _)
RMinOf(w, k) == IF k = 1 THEN w[1] ELSE RMin(RMinOf(w, k - 1), w[k])

\* a ** b, for the exponents the module uses: a natural number or 1/3
RPow(a, b) ==
    IF b = <<1, 3>> THEN RCbrt(a)
    ELSE IF b[2] = 1 /\ b[1] >= 0 THEN RPowInt(a, b[1])
    ELSE NaN

\* The value of expression e when the shared variables hold st and the
\* gradient expressions evaluate to env.
\* one node of the graph applied to the values of its inputs
Apply(op, A, B, C) ==
    CASE op = "add" -> RAdd(A, B)
      [] op = "sub" -> RSub(A, B)
      [] op = "mul" -> RMul(A, B)
      [] op = "div" -> RDiv(A, B)
      [] op = "sqr" -> RMul(A, A)
      [] op = "sqrt" -> RSqrt(A)
      [] op = "pow" -> RPow(A, B)
      [] op = "abs" -> RAbs(A)
      [] op = "maximum" -> RMax(A, B)
      [] op = "minimum" -> RMin(A, B)
      [] op = "clip" -> RClip(A, B, C)
      [] op = "ge" -> Bool(RGe(A, B))
      [] op = "ifelse" -> IF A # Zero THEN B ELSE C
      [] op = "mod" -> Q(A[1] % B[1], 1)
      [] op = "inv" -> RDiv(One, A)
      [] op = "set_subtensor" ->
           [k \in 1..Len(A) |-> IF k = B[1] + 1 THEN C ELSE A[k]]
      [] op = "max_prefix" -> RMaxOf(A, B[1])
      [] op = "min_prefix" -> RMinOf(A, B[1])

\* The inputs of a node are computed once each, before the node is applied.
RECURSIVE Eval(_, _, _)
Eval(e, st, env) ==
    CASE e[1] = "const" -> e[2]
      [] e[1] = "shared" -> st[e[2]]
      [] e[1] = "grad" -> env[e[2]]
      [] OTHER ->
           Value({Apply(e[1], A, B, C) :
                      A \in {Eval(e[2], st, env)},
                      B \in {IF Len(e) >= 3 THEN Eval(e[3], st, env) ELSE Zero},
                      C \in {IF Len(e) >= 4 THEN Eval(e[4], st, env) ELSE Zero}})

\* One execution of the function compiled with updates=od: every value is
\* computed from the values before the step, then all are assigned.
Execute(od, st, env) ==
    [c \in DOMAIN st |-> IF ODHas(od, c) THEN Eval(ODGet(od, c), st, env) ELSE st[c]]

---------------------------------------------------------------------------
(* What a call gives back: the dictionary it returns or the exception it  *)
(* raises, and the shared variables it created with their initial values. *)

Return(od, cells) == [err |-> "none", updates |-> od, created |-> cells]

Raise(e, cells) == [err |-> e, updates |-> <<>>, created |-> cells]

ParamsNotShared == "ValueError: params must contain shared variables only"

GradCountMismatch == "ValueError: Got n gradient expressions for m parameters"

KeyError == "KeyError"

UnexpectedKeyword == "TypeError: got an unexpected keyword argument"

\* np.zeros(value.shape) in one new shared variable per index
ZerosFor(role, n) == [c \in {Shared(role, i) : i \in 1..n} |-> Zero]

\* a list of gradient expressions, or a scalar loss expression
GradList(gs) == [is_list |-> TRUE, grads |-> gs]

Loss == [is_list |-> FALSE, grads |-> <<>>]

---------------------------------------------------------------------------
(* apply_decay, get_or_compute_grads *)

\* apply_decay_for comparing with T.gt in place of T.ge
RECURSIVE apply_decay_for_gt(_, _, _, _, _)
apply_decay_for_gt(i, updates, params, period, factor) ==
    IF i > Len(params) THEN updates
    ELSE LET p == params[i]
             count == Shared("decay_count", i)
             one == Const(One)
             cond == Ge(Var(count), Const(Q(period + 1, 1)))
             u1 == ODSet(updates, count, IfElse(cond, one, Add(Var(count), one)))
             u2 == ODSet(u1, p, IfElse(cond, Mul(Var(p), Const(factor)), Var(p)))
         IN  apply_decay_for_gt(i + 1, u2, params, period, factor)

RECURSIVE apply_decay_for(_, _, _, _, _)
apply_decay_for(i, updates, params, period, factor) ==
    IF i > Len(params) THEN updates
    ELSE LET p == params[i]
             count == Shared("decay_count", i)
             one == Const(One)
             cond == Ge(Var(count), Const(Q(period, 1)))
             u1 == ODSet(updates, count, IfElse(cond, one, Add(Var(count), one)))
             u2 == ODSet(u1, p, IfElse(cond, Mul(Var(p), Const(factor)), Var(p)))
         IN  apply_decay_for(i + 1, u2, params, period, factor)

apply_decay(updates, params, period, factor) ==
    IF period <= 0 THEN Return(updates, EmptyFn)
    ELSE Return(apply_decay_for(1, updates, params, period, factor),
                [c \in {Shared("decay_count", i) : i \in 1..Len(params)} |-> One])

\* get_or_compute_grads without the comparison of the two lengths
get_or_compute_grads_unchecked(loss_or_grads, params) ==
    IF \E i \in 1..Len(params) : ~IsShared(params[i])
    THEN [err |-> ParamsNotShared, grads |-> <<>>]
    ELSE IF loss_or_grads.is_list
    THEN [err |-> "none", grads |-> loss_or_grads.grads]
    ELSE [err |-> "none", grads |-> [i \in 1..Len(params) |-> GradWrt(params[i])]]

get_or_compute_grads(loss_or_grads, params) ==
    IF \E i \in 1..Len(params) : ~IsShared(params[i])
    THEN [err |-> ParamsNotShared, grads |-> <<>>]
    ELSE IF loss_or_grads.is_list
    THEN IF Len(loss_or_grads.grads) # Len(params)
         THEN [err |-> GradCountMismatch, grads |-> <<>>]
         ELSE [err |-> "none", grads |-> loss_or_grads.grads]
    ELSE [err |-> "none", grads |-> [i \in 1..Len(params) |-> GradWrt(params[i])]]

---------------------------------------------------------------------------
(* sgd, apply_momentum, momentum, apply_nesterov_momentum,                *)
(* nesterov_momentum                                                      *)

\* the keyword arguments a decorated rule takes when none are passed
DefaultDecayPeriod == 0

DefaultDecayFactor == <<1, 2>>

RECURSIVE lr_decay(_, _, _, _, _, _, _)

RECURSIVE sgd_for(_, _, _, _, _)
sgd_for(i, updates, params, grads, learning_rate) ==
    IF i > Min(Len(params), Len(grads)) THEN updates
    ELSE LET param == params[i]
             grad == grads[i]
         IN  sgd_for(i + 1,
                     ODSet(updates, param, Sub(Var(param), Mul(learning_rate, grad))),
                     params, grads, learning_rate)

\* the function under the @lr_decay decorator
sgd_undecorated(loss_or_grads, params, learning_rate) ==
    LET g == get_or_compute_grads(loss_or_grads, params)
    IN  IF g.err # "none" THEN Raise(g.err, EmptyFn)
        ELSE Return(sgd_for(1, <<>>, params, g.grads, learning_rate), EmptyFn)

sgd(loss_or_grads, params, learning_rate, decay_period, decay_factor) ==
    lr_decay("sgd", loss_or_grads, params, learning_rate, [none |-> None],
             decay_period, decay_factor)

\* apply_momentum_for storing x itself as the velocity
RECURSIVE apply_momentum_for_absolute(_, _, _, _, _)
apply_momentum_for_absolute(i, updates, params, momentum_, velocities) ==
    IF i > Min(Len(params), Len(velocities)) THEN [err |-> "none", updates |-> updates]
    ELSE LET param == params[i]
             velocity == velocities[i]
         IN  IF ~ODHas(updates, param) THEN [err |-> KeyError, updates |-> updates]
             ELSE LET x == Add(Mul(momentum_, Var(velocity)), ODGet(updates, param))
                      u1 == ODSet(updates, velocity, x)
                      u2 == ODSet(u1, param, x)
                  IN  apply_momentum_for_absolute(i + 1, u2, params, momentum_,
                                                  velocities)

RECURSIVE apply_momentum_for(_, _, _, _, _)
apply_momentum_for(i, updates, params, momentum_, velocities) ==
    IF i > Min(Len(params), Len(velocities)) THEN [err |-> "none", updates |-> updates]
    ELSE LET param == params[i]
             velocity == velocities[i]
         IN  IF ~ODHas(updates, param) THEN [err |-> KeyError, updates |-> updates]
             ELSE LET x == Add(Mul(momentum_, Var(velocity)), ODGet(updates, param))
                      u1 == ODSet(updates, velocity, Sub(x, Var(param)))
                      u2 == ODSet(u1, param, x)
                  IN  apply_momentum_for(i + 1, u2, params, momentum_, velocities)

\* params and velocities are optional; the dictionary passed in is copied
apply_momentum(updates, params, momentum_, velocities) ==
    LET ps == IF params = None THEN ODKeyList(updates) ELSE params[1]
        made == IF velocities = None THEN ZerosFor("velocity", Len(ps)) ELSE EmptyFn
        vs == IF velocities = None THEN [i \in 1..Len(ps) |-> Shared("velocity", i)]
              ELSE velocities[1]
        r == apply_momentum_for(1, updates, ps, momentum_, vs)
    IN  IF r.err # "none" THEN Raise(r.err, made) ELSE Return(r.updates, made)

\* apply_momentum writing into the dictionary it was passed
apply_momentum_argument_in_place(updates, params, momentum_, velocities) ==
    Value({IF r.err # "none" THEN updates ELSE r.updates
           : r \in {apply_momentum(updates, params, momentum_, velocities)}})

\* the dictionary the caller passed to apply_momentum, as it is after the
\* call: the name updates is bound to a copy before the loop writes to it
apply_momentum_argument(updates, params, momentum_, velocities) ==
    updates

\* momentum_undecorated leaving apply_momentum its default momentum of 0.9
momentum_undecorated_default(loss_or_grads, params, learning_rate, momentum_, velocities) ==
    Value({IF u.err # "none" THEN u
           ELSE apply_momentum(u.updates, None, Const(Q(9, 10)), velocities)
         : u \in {sgd(loss_or_grads, params, learning_rate,
                      DefaultDecayPeriod, DefaultDecayFactor)}})

momentum_undecorated(loss_or_grads, params, learning_rate, momentum_, velocities) ==
    Value({IF u.err # "none" THEN u
           ELSE apply_momentum(u.updates, None, momentum_, velocities)
         : u \in {sgd(loss_or_grads, params, learning_rate,
                      DefaultDecayPeriod, DefaultDecayFactor)}})

momentum(loss_or_grads, params, learning_rate, momentum_, velocities, decay_period, decay_factor) ==
    lr_decay("momentum", loss_or_grads, params, learning_rate,
             [momentum |-> momentum_, velocities |-> velocities],
             decay_period, decay_factor)

\* apply_nesterov_momentum_for adding x without the factor momentum
RECURSIVE apply_nesterov_momentum_for_unscaled(_, _, _, _, _)
apply_nesterov_momentum_for_unscaled(i, updates, params, momentum_, velocities) ==
    IF i > Min(Len(params), Len(velocities)) THEN [err |-> "none", updates |-> updates]
    ELSE LET param == params[i]
             velocity == velocities[i]
         IN  IF ~ODHas(updates, param) THEN [err |-> KeyError, updates |-> updates]
             ELSE LET x == Sub(Add(Mul(momentum_, Var(velocity)), ODGet(updates, param)),
                               Var(param))
                      u1 == ODSet(updates, velocity, x)
                      u2 == ODSet(u1, param, Add(x, ODGet(u1, param)))
                  IN  apply_nesterov_momentum_for_unscaled(i + 1, u2, params, momentum_,
                                                           velocities)

RECURSIVE apply_nesterov_momentum_for(_, _, _, _, _)
apply_nesterov_momentum_for(i, updates, params, momentum_, velocities) ==
    IF i > Min(Len(params), Len(velocities)) THEN [err |-> "none", updates |-> updates]
    ELSE LET param == params[i]
             velocity == velocities[i]
         IN  IF ~ODHas(updates, param) THEN [err |-> KeyError, updates |-> updates]
             ELSE LET x == Sub(Add(Mul(momentum_, Var(velocity)), ODGet(updates, param)),
                               Var(param))
                      u1 == ODSet(updates, velocity, x)
                      u2 == ODSet(u1, param, Add(Mul(momentum_, x), ODGet(u1, param)))
                  IN  apply_nesterov_momentum_for(i + 1, u2, params, momentum_,
                                                  velocities)

apply_nesterov_momentum(updates, params, momentum_, velocities) ==
    LET ps == IF params = None THEN ODKeyList(updates) ELSE params[1]
        made == IF velocities = None THEN ZerosFor("velocity", Len(ps)) ELSE EmptyFn
        vs == IF velocities = None THEN [i \in 1..Len(ps) |-> Shared("velocity", i)]
              ELSE velocities[1]
        r == apply_nesterov_momentum_for(1, updates, ps, momentum_, vs)
    IN  IF r.err # "none" THEN Raise(r.err, made) ELSE Return(r.updates, made)

\* the dictionary the caller passed to apply_nesterov_momentum, as it is
\* after the call: here too the loop writes to a copy
apply_nesterov_momentum_argument(updates, params, momentum_, velocities) ==
    updates

nesterov_momentum_undecorated(loss_or_grads, params, learning_rate, momentum_, velocities) ==
    Value({IF u.err # "none" THEN u
           ELSE apply_nesterov_momentum(u.updates, None, momentum_, velocities)
         : u \in {sgd(loss_or_grads, params, learning_rate,
                      DefaultDecayPeriod, DefaultDecayFactor)}})

nesterov_momentum(loss_or_grads, params, learning_rate, momentum_, velocities, decay_period, decay_factor) ==
    lr_decay("nesterov_momentum", loss_or_grads, params, learning_rate,
             [momentum |-> momentum_, velocities |-> velocities],
             decay_period, decay_factor)

---------------------------------------------------------------------------
(* adagrad, rmsprop, adadelta, adam, adamax *)

Two == Const(Q(2, 1))

\* adagrad averaging the squared gradients as rmsprop does with rho = 1/2
RECURSIVE adagrad_for_averaging(_, _, _, _, _, _)
adagrad_for_averaging(i, updates, params, grads, learning_rate, epsilon) ==
    IF i > Min(Len(params), Len(grads)) THEN updates
    ELSE LET param == params[i]
             grad == grads[i]
             accu == Shared("accu", i)
             accu_new == Add(Mul(Const(Q(1, 2)), Var(accu)),
                             Mul(Const(Q(1, 2)), Pow(grad, Two)))
             u1 == ODSet(updates, accu, accu_new)
             u2 == ODSet(u1, param,
                         Sub(Var(param),
                             Div(Mul(learning_rate, grad), Sqrt(Add(accu_new, epsilon)))))
         IN  adagrad_for_averaging(i + 1, u2, params, grads, learning_rate, epsilon)

RECURSIVE adagrad_for(_, _, _, _, _, _)
adagrad_for(i, updates, params, grads, learning_rate, epsilon) ==
    IF i > Min(Len(params), Len(grads)) THEN updates
    ELSE LET param == params[i]
             grad == grads[i]
             accu == Shared("accu", i)
             accu_new == Add(Var(accu), Pow(grad, Two))
             u1 == ODSet(updates, accu, accu_new)
             u2 == ODSet(u1, param,
                         Sub(Var(param),
                             Div(Mul(learning_rate, grad), Sqrt(Add(accu_new, epsilon)))))
         IN  adagrad_for(i + 1, u2, params, grads, learning_rate, epsilon)

adagrad_undecorated(loss_or_grads, params, learning_rate, epsilon) ==
    LET g == get_or_compute_grads(loss_or_grads, params)
    IN  IF g.err # "none" THEN Raise(g.err, EmptyFn)
        ELSE Return(adagrad_for(1, <<>>, params, g.grads, learning_rate, epsilon),
                    ZerosFor("accu", Len(params)))

adagrad(loss_or_grads, params, learning_rate, epsilon, decay_period, decay_factor) ==
    lr_decay("adagrad", loss_or_grads, params, learning_rate,
             [epsilon |-> epsilon], decay_period, decay_factor)

RECURSIVE rmsprop_for(_, _, _, _, _, _, _)
rmsprop_for(i, updates, params, grads, learning_rate, rho, epsilon) ==
    IF i > Min(Len(params), Len(grads)) THEN updates
    ELSE LET param == params[i]
             grad == grads[i]
             one == Const(One)
             accu == Shared("accu", i)
             accu_new == Add(Mul(rho, Var(accu)), Mul(Sub(one, rho), Pow(grad, Two)))
             u1 == ODSet(updates, accu, accu_new)
             u2 == ODSet(u1, param,
                         Sub(Var(param),
                             Div(Mul(learning_rate, grad), Sqrt(Add(accu_new, epsilon)))))
         IN  rmsprop_for(i + 1, u2, params, grads, learning_rate, rho, epsilon)

rmsprop_undecorated(loss_or_grads, params, learning_rate, rho, epsilon) ==
    LET g == get_or_compute_grads(loss_or_grads, params)
    IN  IF g.err # "none" THEN Raise(g.err, EmptyFn)
        ELSE Return(rmsprop_for(1, <<>>, params, g.grads, learning_rate, rho, epsilon),
                    ZerosFor("accu", Len(params)))

rmsprop(loss_or_grads, params, learning_rate, rho, epsilon, decay_period, decay_factor) ==
    lr_decay("rmsprop", loss_or_grads, params, learning_rate,
             [rho |-> rho, epsilon |-> epsilon], decay_period, decay_factor)

\* adadelta refreshing delta_accu first and stepping with the refreshed value
RECURSIVE adadelta_for_refreshed(_, _, _, _, _, _, _)
adadelta_for_refreshed(i, updates, params, grads, learning_rate, rho, epsilon) ==
    IF i > Min(Len(params), Len(grads)) THEN updates
    ELSE LET param == params[i]
             grad == grads[i]
             one == Const(One)
             accu == Shared("accu", i)
             delta_accu == Shared("delta_accu", i)
             accu_new == Add(Mul(rho, Var(accu)), Mul(Sub(one, rho), Pow(grad, Two)))
             u1 == ODSet(updates, accu, accu_new)
             update == Div(Mul(grad, Sqrt(Add(Var(delta_accu), epsilon))),
                           Sqrt(Add(accu_new, epsilon)))
             delta_accu_new == Add(Mul(rho, Var(delta_accu)),
                                   Mul(Sub(one, rho), Pow(update, Two)))
             refreshed == Div(Mul(grad, Sqrt(Add(delta_accu_new, epsilon))),
                              Sqrt(Add(accu_new, epsilon)))
             u2 == ODSet(u1, param, Sub(Var(param), Mul(learning_rate, refreshed)))
             u3 == ODSet(u2, delta_accu, delta_accu_new)
         IN  adadelta_for_refreshed(i + 1, u3, params, grads, learning_rate, rho,
                                    epsilon)

RECURSIVE adadelta_for(_, _, _, _, _, _, _)
adadelta_for(i, updates, params, grads, learning_rate, rho, epsilon) ==
    IF i > Min(Len(params), Len(grads)) THEN updates
    ELSE LET param == params[i]
             grad == grads[i]
             one == Const(One)
             accu == Shared("accu", i)
             delta_accu == Shared("delta_accu", i)
             accu_new == Add(Mul(rho, Var(accu)), Mul(Sub(one, rho), Pow(grad, Two)))
             u1 == ODSet(updates, accu, accu_new)
             update == Div(Mul(grad, Sqrt(Add(Var(delta_accu), epsilon))),
                           Sqrt(Add(accu_new, epsilon)))
             u2 == ODSet(u1, param, Sub(Var(param), Mul(learning_rate, update)))
             delta_accu_new == Add(Mul(rho, Var(delta_accu)),
                                   Mul(Sub(one, rho), Pow(update, Two)))
             u3 == ODSet(u2, delta_accu, delta_accu_new)
         IN  adadelta_for(i + 1, u3, params, grads, learning_rate, rho, epsilon)

adadelta_undecorated(loss_or_grads, params, learning_rate, rho, epsilon) ==
    LET g == get_or_compute_grads(loss_or_grads, params)
    IN  IF g.err # "none" THEN Raise(g.err, EmptyFn)
        ELSE Return(adadelta_for(1, <<>>, params, g.grads, learning_rate, rho, epsilon),
                    ZerosFor("accu", Len(params)) @@ ZerosFor("delta_accu", Len(params)))

adadelta(loss_or_grads, params, learning_rate, rho, epsilon, decay_period, decay_factor) ==
    lr_decay("adadelta", loss_or_grads, params, learning_rate,
             [rho |-> rho, epsilon |-> epsilon], decay_period, decay_factor)

RECURSIVE adam_for(_, _, _, _, _, _, _, _)
adam_for(i, updates, params, all_grads, a_t, beta1, beta2, epsilon) ==
    IF i > Min(Len(params), Len(all_grads)) THEN updates
    ELSE LET param == params[i]
             g_t == all_grads[i]
             one == Const(One)
             m_prev == Shared("m_prev", i)
             v_prev == Shared("v_prev", i)
             m_t == Add(Mul(beta1, Var(m_prev)), Mul(Sub(one, beta1), g_t))
             v_t == Add(Mul(beta2, Var(v_prev)), Mul(Sub(one, beta2), Pow(g_t, Two)))
             step == Div(Mul(a_t, m_t), Add(Sqrt(v_t), epsilon))
             u1 == ODSet(updates, m_prev, m_t)
             u2 == ODSet(u1, v_prev, v_t)
             u3 == ODSet(u2, param, Sub(Var(param), step))
         IN  adam_for(i + 1, u3, params, all_grads, a_t, beta1, beta2, epsilon)

\* adam with the correction factor computed from the counter before its
\* increment
adam_undecorated_stale(loss_or_grads, params, learning_rate, beta1, beta2, epsilon) ==
    LET g == get_or_compute_grads(loss_or_grads, params)
        t_prev == Shared("t_prev", 0)
        one == Const(One)
        t == Add(Var(t_prev), one)
        a_t == Div(Mul(learning_rate, Sqrt(Sub(one, Pow(beta2, Var(t_prev))))),
                   Sub(one, Pow(beta1, Var(t_prev))))
    IN  IF g.err # "none" THEN Raise(g.err, EmptyFn)
        ELSE Return(ODSet(adam_for(1, <<>>, params, g.grads, a_t, beta1, beta2, epsilon),
                          t_prev, t),
                    (t_prev :> Zero) @@ ZerosFor("m_prev", Len(params))
                        @@ ZerosFor("v_prev", Len(params)))

adam_undecorated(loss_or_grads, params, learning_rate, beta1, beta2, epsilon) ==
    LET g == get_or_compute_grads(loss_or_grads, params)
        t_prev == Shared("t_prev", 0)
        one == Const(One)
        t == Add(Var(t_prev), one)
        a_t == Div(Mul(learning_rate, Sqrt(Sub(one, Pow(beta2, t)))),
                   Sub(one, Pow(beta1, t)))
    IN  IF g.err # "none" THEN Raise(g.err, EmptyFn)
        ELSE Return(ODSet(adam_for(1, <<>>, params, g.grads, a_t, beta1, beta2, epsilon),
                          t_prev, t),
                    (t_prev :> Zero) @@ ZerosFor("m_prev", Len(params))
                        @@ ZerosFor("v_prev", Len(params)))

adam(loss_or_grads, params, learning_rate, beta1, beta2, epsilon, decay_period, decay_factor) ==
    lr_decay("adam", loss_or_grads, params, learning_rate,
             [beta1 |-> beta1, beta2 |-> beta2, epsilon |-> epsilon],
             decay_period, decay_factor)

RECURSIVE adamax_for(_, _, _, _, _, _, _, _)
adamax_for(i, updates, params, all_grads, a_t, beta1, beta2, epsilon) ==
    IF i > Min(Len(params), Len(all_grads)) THEN updates
    ELSE LET param == params[i]
             g_t == all_grads[i]
             one == Const(One)
             m_prev == Shared("m_prev", i)
             u_prev == Shared("u_prev", i)
             m_t == Add(Mul(beta1, Var(m_prev)), Mul(Sub(one, beta1), g_t))
             u_t == Maximum(Mul(beta2, Var(u_prev)), AbsE(g_t))
             step == Div(Mul(a_t, m_t), Add(u_t, epsilon))
             u1 == ODSet(updates, m_prev, m_t)
             u2 == ODSet(u1, u_prev, u_t)
             u3 == ODSet(u2, param, Sub(Var(param), step))
         IN  adamax_for(i + 1, u3, params, all_grads, a_t, beta1, beta2, epsilon)

adamax_undecorated(loss_or_grads, params, learning_rate, beta1, beta2, epsilon) ==
    LET g == get_or_compute_grads(loss_or_grads, params)
        t_prev == Shared("t_prev", 0)
        one == Const(One)
        t == Add(Var(t_prev), one)
        a_t == Div(learning_rate, Sub(one, Pow(beta1, t)))
    IN  IF g.err # "none" THEN Raise(g.err, EmptyFn)
        ELSE Return(ODSet(adamax_for(1, <<>>, params, g.grads, a_t, beta1, beta2, epsilon),
                          t_prev, t),
                    (t_prev :> Zero) @@ ZerosFor("m_prev", Len(params))
                        @@ ZerosFor("u_prev", Len(params)))

adamax(loss_or_grads, params, learning_rate, beta1, beta2, epsilon, decay_period, decay_factor) ==
    lr_decay("adamax", loss_or_grads, params, learning_rate,
             [beta1 |-> beta1, beta2 |-> beta2, epsilon |-> epsilon],
             decay_period, decay_factor)

---------------------------------------------------------------------------
(* The decorator.  updates_fn names the decorated function; args holds    *)
(* the arguments that follow learning_rate.                               *)

call_updates_fn(updates_fn, loss_or_grads, params, learning_rate, args) ==
    CASE updates_fn = "sgd" ->
           sgd_undecorated(loss_or_grads, params, learning_rate)
      [] updates_fn = "momentum" ->
           momentum_undecorated(loss_or_grads, params, learning_rate,
                                args.momentum, args.velocities)
      [] updates_fn = "nesterov_momentum" ->
           nesterov_momentum_undecorated(loss_or_grads, params, learning_rate,
                                         args.momentum, args.velocities)
      [] updates_fn = "adagrad" ->
           adagrad_undecorated(loss_or_grads, params, learning_rate, args.epsilon)
      [] updates_fn = "rmsprop" ->
           rmsprop_undecorated(loss_or_grads, params, learning_rate,
                               args.rho, args.epsilon)
      [] updates_fn = "adadelta" ->
           adadelta_undecorated(loss_or_grads, params, learning_rate,
                                args.rho, args.epsilon)
      [] updates_fn = "adam" ->
           adam_undecorated(loss_or_grads, params, learning_rate,
                            args.beta1, args.beta2, args.epsilon)
      [] updates_fn = "adamax" ->
           adamax_undecorated(loss_or_grads, params, learning_rate,
                              args.beta1, args.beta2, args.epsilon)

\* lr_decay without the test of decay_period and decay_factor
lr_decay_always(updates_fn, loss_or_grads, params, learning_rate, args, decay_period, decay_factor) ==
    LET cell == Shared("learning_rate", 0)
        made == (cell :> learning_rate[2])
    IN  Value({
            IF u.err # "none" THEN Raise(u.err, made @@ u.created)
            ELSE Value({Return(d.updates, made @@ u.created @@ d.created)
                   : d \in {apply_decay(u.updates, <<cell>>, decay_period,
                                        decay_factor)}})
          : u \in {call_updates_fn(updates_fn, loss_or_grads, params, Var(cell),
                                   args)}})

\* lr_decay handing the rule the learning rate as it is after the decay of
\* the same step
lr_decay_eager(updates_fn, loss_or_grads, params, learning_rate, args, decay_period, decay_factor) ==
    IF decay_period <= 0 \/ decay_factor = One
    THEN call_updates_fn(updates_fn, loss_or_grads, params, learning_rate, args)
    ELSE LET cell == Shared("learning_rate", 0)
             made == (cell :> learning_rate[2])
             now == IfElse(Ge(Var(Shared("decay_count", 1)), Const(Q(decay_period, 1))),
                           Mul(Var(cell), Const(decay_factor)), Var(cell))
         IN  Value({
                 IF u.err # "none" THEN Raise(u.err, made @@ u.created)
                 ELSE Value({Return(d.updates, made @@ u.created @@ d.created)
                        : d \in {apply_decay(u.updates, <<cell>>, decay_period,
                                             decay_factor)}})
               : u \in {call_updates_fn(updates_fn, loss_or_grads, params, now,
                                        args)}})

lr_decay(updates_fn, loss_or_grads, params, learning_rate, args, decay_period, decay_factor) ==
    IF decay_period <= 0 \/ decay_factor = One
    THEN call_updates_fn(updates_fn, loss_or_grads, params, learning_rate, args)
    ELSE LET cell == Shared("learning_rate", 0)
             made == (cell :> learning_rate[2])
         IN  Value({
                 IF u.err # "none" THEN Raise(u.err, made @@ u.created)
                 ELSE Value({Return(d.updates, made @@ u.created @@ d.created)
                        : d \in {apply_decay(u.updates, <<cell>>, decay_period,
                                             decay_factor)}})
               : u \in {call_updates_fn(updates_fn, loss_or_grads, params, Var(cell),
                                        args)}})

---------------------------------------------------------------------------
(* cocob.  It is not decorated: kwargs is the set of keyword arguments    *)
(* the caller passed that its signature does not name.                    *)

RECURSIVE cocob_for(_, _, _, _, _, _)
cocob_for(i, updates, params, grads, alpha, epsilon) ==
    IF i > Min(Len(params), Len(grads)) THEN updates
    ELSE LET param == params[i]
             grad == grads[i]
             l == Shared("l", i)
             g == Shared("g", i)
             r == Shared("r", i)
             s == Shared("s", i)
             l_t == Maximum(Mul(Var(l), Const(Q(999, 1000))), AbsE(grad))
             g_t == Add(Var(g), AbsE(grad))
             r_t == Clip(Sub(Var(r), Mul(Var(param), grad)),
                         Const(Zero), Const(Q(1000, 1)))
             s_t == Add(Var(s), grad)
             factor == Div(s_t, Add(Mul(l_t, Maximum(Add(g_t, l_t), Mul(alpha, l_t))),
                                    epsilon))
         IN  cocob_for(i + 1,
                       ODSet(updates, param, Sub(Var(param), Mul(factor, Add(l_t, r_t)))),
                       params, grads, alpha, epsilon)

\* cocob taking any keyword argument
cocob_any_keyword(loss_or_grads, params, alpha, epsilon, kwargs) ==
    LET g == get_or_compute_grads(loss_or_grads, params)
    IN  IF g.err # "none" THEN Raise(g.err, EmptyFn)
        ELSE Return(cocob_for(1, <<>>, params, g.grads, alpha, epsilon),
                    ZerosFor("l", Len(params)) @@ ZerosFor("g", Len(params))
                        @@ ZerosFor("r", Len(params)) @@ ZerosFor("s", Len(params)))

cocob(loss_or_grads, params, alpha, epsilon, kwargs) ==
    LET g == get_or_compute_grads(loss_or_grads, params)
    IN  IF kwargs # {} THEN Raise(UnexpectedKeyword, EmptyFn)
        ELSE IF g.err # "none" THEN Raise(g.err, EmptyFn)
        ELSE Return(cocob_for(1, <<>>, params, g.grads, alpha, epsilon),
                    ZerosFor("l", Len(params)) @@ ZerosFor("g", Len(params))
                        @@ ZerosFor("r", Len(params)) @@ ZerosFor("s", Len(params)))

---------------------------------------------------------------------------
(* exponential_moving_average and yellow_fin with its three estimators    *)

\* exponential_moving_average dividing by 1 - alpha^(t+1) whenever t is
\* given, also after ramping alpha
exponential_moving_average_both(alpha, s_t, x_t, t, init_period) ==
    LET one == Const(One)
        ramped == t # None /\ init_period # None /\ init_period[1] > 0
        p == Const(Q(init_period[1], 1))
        alpha_t == IF ramped
                   THEN Mul(alpha, Minimum(one, Add(Div(Mul(Sub(p, one), t[1]), Sqr(p)),
                                                    Inv(p))))
                   ELSE alpha
        factor == IF t # None
                  THEN Sub(one, Pow(alpha, Add(t[1], one)))
                  ELSE one
    IN  Div(Add(Mul(alpha_t, s_t), Mul(Sub(one, alpha_t), x_t)), factor)

\* exponential_moving_average with the ramp min(1, t / T + 1 / T), which
\* is over one step early
exponential_moving_average_early(alpha, s_t, x_t, t, init_period) ==
    LET one == Const(One)
        ramped == t # None /\ init_period # None /\ init_period[1] > 0
        p == Const(Q(init_period[1], 1))
        alpha_t == IF ramped
                   THEN Mul(alpha, Minimum(one, Add(Div(t[1], p), Inv(p))))
                   ELSE alpha
        factor == IF ~ramped /\ t # None
                  THEN Sub(one, Pow(alpha, Add(t[1], one)))
                  ELSE one
    IN  Div(Add(Mul(alpha_t, s_t), Mul(Sub(one, alpha_t), x_t)), factor)

\* t is an optional expression, init_period an optional number
exponential_moving_average(alpha, s_t, x_t, t, init_period) ==
    LET one == Const(One)
        ramped == t # None /\ init_period # None /\ init_period[1] > 0
        p == Const(Q(init_period[1], 1))
        alpha_t == IF ramped
                   THEN Mul(alpha, Minimum(one, Add(Div(Mul(Sub(p, one), t[1]), Sqr(p)),
                                                    Inv(p))))
                   ELSE alpha
        factor == IF ~ramped /\ t # None
                  THEN Sub(one, Pow(alpha, Add(t[1], one)))
                  ELSE one
    IN  Div(Add(Mul(alpha_t, s_t), Mul(Sub(one, alpha_t), x_t)), factor)

ema(alpha, s_t, x_t, t, init_period) ==
    exponential_moving_average(alpha, s_t, x_t, t, init_period)

\* sum(T.sum(T.sqr(g)) for g in grads)
RECURSIVE SumSqr(_, _)
SumSqr(grads, k) == IF k = 0 THEN Const(Zero) ELSE Add(SumSqr(grads, k - 1), Sqr(grads[k]))

\* curvature_range taking the maximum and the minimum over the whole window
curvature_range_whole_window(grads, beta, t, updates, window_width) ==
    LET window == Shared("window", 0)
        t_mod == Mod(t, Const(Q(window_width, 1)))
        u1 == ODSet(updates, window,
                    SetSubtensor(Var(window), t_mod, SumSqr(grads, Len(grads))))
        t_ == Const(Q(window_width, 1))
        h_max_t == MaxPrefix(ODGet(u1, window), t_)
        h_min_t == MinPrefix(ODGet(u1, window), t_)
        h_max == Shared("h_max", 0)
        h_min == Shared("h_min", 0)
        u2 == ODSet(u1, h_max, ema(beta, Var(h_max), h_max_t, None, None))
        u3 == ODSet(u2, h_min, ema(beta, Var(h_min), h_min_t, None, None))
    IN  [updates |-> u3, h_max |-> ODGet(u3, h_max), h_min |-> ODGet(u3, h_min),
         created |-> (window :> [k \in 1..window_width |-> Zero])
                         @@ (h_max :> Zero) @@ (h_min :> Zero)]

\* returns the two expressions and the dictionary it has written to
curvature_range(grads, beta, t, updates, window_width) ==
    LET window == Shared("window", 0)
        t_mod == Mod(t, Const(Q(window_width, 1)))
        u1 == ODSet(updates, window,
                    SetSubtensor(Var(window), t_mod, SumSqr(grads, Len(grads))))
        t_ == Minimum(Add(t, Const(One)), Const(Q(window_width, 1)))
        h_max_t == MaxPrefix(ODGet(u1, window), t_)
        h_min_t == MinPrefix(ODGet(u1, window), t_)
        h_max == Shared("h_max", 0)
        h_min == Shared("h_min", 0)
        u2 == ODSet(u1, h_max, ema(beta, Var(h_max), h_max_t, None, None))
        u3 == ODSet(u2, h_min, ema(beta, Var(h_min), h_min_t, None, None))
    IN  [updates |-> u3, h_max |-> ODGet(u3, h_max), h_min |-> ODGet(u3, h_min),
         created |-> (window :> [k \in 1..window_width |-> Zero])
                         @@ (h_max :> Zero) @@ (h_min :> Zero)]

RECURSIVE gradient_variance_for(_, _, _, _, _, _)
gradient_variance_for(i, norm, updates, params, grads, beta) ==
    IF i > Min(Len(params), Len(grads)) THEN [updates |-> updates, norm |-> norm]
    ELSE LET g == grads[i]
             mom1 == Shared("mom1", i)
             mom2 == Shared("mom2", i)
             u1 == ODSet(updates, mom1, ema(beta, Var(mom1), g, None, None))
             u2 == ODSet(u1, mom2, ema(beta, Var(mom2), Sqr(g), None, None))
         IN  gradient_variance_for(
                 i + 1, Add(norm, AbsE(Sub(ODGet(u2, mom2), Sqr(ODGet(u2, mom1))))),
                 u2, params, grads, beta)

gradient_variance(grads, params, beta, updates) ==
    LET r == gradient_variance_for(1, Const(Zero), updates, params, grads, beta)
        n == Min(Len(params), Len(grads))
    IN  [updates |-> r.updates, norm |-> r.norm,
         created |-> ZerosFor("mom1", n) @@ ZerosFor("mom2", n)]

distance_to_optim(grads, beta, updates) ==
    LET g == Shared("g", 0)
        h == Shared("h", 0)
        d == Shared("d", 0)
        new_norm == SumSqr(grads, Len(grads))
        u1 == ODSet(updates, g, ema(beta, Var(g), Sqrt(new_norm), None, None))
        u2 == ODSet(u1, h, ema(beta, Var(h), new_norm, None, None))
        u3 == ODSet(u2, d, ema(beta, Var(d), Div(ODGet(u2, g), ODGet(u2, h)), None, None))
    IN  [updates |-> u3, d |-> ODGet(u3, d),
         created |-> (g :> One) @@ (h :> One) @@ (d :> One)]

\* t is an optional expression; kwargs as for cocob
yellow_fin(loss_or_grads, params, beta, learning_rate_init, momentum_init, t, window_width, kwargs) ==
    LET gr == get_or_compute_grads(loss_or_grads, params)
        grads == gr.grads
        alpha == Shared("alpha", 0)
        mu == Shared("mu", 0)
        own_t == Shared("t", 0)
        t_ == IF t = None THEN Var(own_t) ELSE t[1]
        u0 == IF t = None THEN ODSet(<<>>, own_t, Add(Var(own_t), Const(One))) ELSE <<>>
        made == (alpha :> learning_rate_init) @@ (mu :> momentum_init)
                    @@ (IF t = None THEN (own_t :> Zero) ELSE EmptyFn)
        one == Const(One)
        mu_sqrt(h_max, h_min, c, d) ==
            LET p == Div(Mul(Sqr(d), Sqr(h_min)), Mul(Two, c))
                w3 == Mul(p, Sub(Sqrt(Add(Const(Q(1, 4)), Div(p, Const(Q(27, 1))))),
                                 Const(Q(1, 2))))
                w == Pow(w3, Const(Q(1, 3)))
                y == Sub(w, Div(p, Mul(Const(Q(3, 1)), w)))
                mu_sqrt1 == Add(y, one)
                mu_sqrt2 == Div(Sub(Sqrt(h_max), Sqrt(h_min)),
                                Add(Sqrt(h_max), Sqrt(h_min)))
            IN  Maximum(mu_sqrt1, mu_sqrt2)
        tuned(updates, ms, h_min) ==
            LET alpha_t == Div(Sqr(Sub(one, ms)), h_min)
                mu_t == Sqr(ms)
                u1 == ODSet(updates, mu, ema(beta, Var(mu), mu_t, None, None))
            IN  ODSet(u1, alpha, ema(beta, Var(alpha), alpha_t, None, None))
    IN  IF kwargs # {} THEN Raise(UnexpectedKeyword, EmptyFn)
        ELSE IF gr.err # "none" THEN Raise(gr.err, EmptyFn)
        ELSE Value({Value({Value({Value({Value({Value({
                 IF m.err # "none" THEN Raise(m.err, made)
                 ELSE Return(ODUpdate(u2, m.updates),
                             made @@ cr.created @@ gv.created @@ dto.created
                                  @@ m.created)
               : m \in {momentum(GradList(grads), params, ODGet(u2, alpha),
                                 ODGet(u2, mu), None,
                                 DefaultDecayPeriod, DefaultDecayFactor)}})
               : u2 \in {tuned(dto.updates, ms, cr.h_min)}})
               : ms \in {mu_sqrt(cr.h_max, cr.h_min, gv.norm, dto.d)}})
               : dto \in {distance_to_optim(grads, beta, gv.updates)}})
               : gv \in {gradient_variance(grads, params, beta, cr.updates)}})
               : cr \in {curvature_range(grads, beta, t_, u0, window_width)}})

---------------------------------------------------------------------------
(* apply_burnout, wrap_with_burnout *)

\* apply_burnout letting the keys the initial dictionary lacks take their
\* long values from the first step
RECURSIVE apply_burnout_for_warming(_, _, _, _, _)
apply_burnout_for_warming(i, updates, long_updates, initial_updates, cond) ==
    IF i > Len(long_updates) THEN updates
    ELSE LET k == long_updates[i][1]
             long_value == long_updates[i][2]
             initial_value == ODGetDefault(initial_updates, k, long_value)
         IN  apply_burnout_for_warming(
                 i + 1, ODSet(updates, k, IfElse(cond, long_value, initial_value)),
                 long_updates, initial_updates, cond)

RECURSIVE apply_burnout_for(_, _, _, _, _)
apply_burnout_for(i, updates, long_updates, initial_updates, cond) ==
    IF i > Len(long_updates) THEN updates
    ELSE LET k == long_updates[i][1]
             long_value == long_updates[i][2]
             initial_value == ODGetDefault(initial_updates, k, Var(k))
         IN  apply_burnout_for(i + 1,
                               ODSet(updates, k, IfElse(cond, long_value, initial_value)),
                               long_updates, initial_updates, cond)

\* apply_burnout comparing with T.gt in place of T.ge
apply_burnout_gt(long_updates, initial_updates, burnout) ==
    IF burnout > 0
    THEN LET t == Shared("momentum_t", 0)
             cond == Ge(Var(t), Const(Q(burnout + 1, 1)))
             values == apply_burnout_for(1, <<>>, long_updates, initial_updates, cond)
         IN  Return(ODSet(values, t, Add(Var(t), Const(One))), (t :> Zero))
    ELSE Return(long_updates, EmptyFn)

apply_burnout(long_updates, initial_updates, burnout) ==
    IF burnout > 0
    THEN LET t == Shared("momentum_t", 0)
             cond == Ge(Var(t), Const(Q(burnout, 1)))
             values == apply_burnout_for(1, <<>>, long_updates, initial_updates, cond)
         IN  Return(ODSet(values, t, Add(Var(t), Const(One))), (t :> Zero))
    ELSE Return(long_updates, EmptyFn)

\* the get_updates that wrap_with_burnout(updates_fn, burnout) returns,
\* called with kwargs = args and the decay keywords
wrap_with_burnout(updates_fn, burnout, loss_or_grads, params, learning_rate, args, decay_period, decay_factor) ==
    Value({
        IF sgd_updates.err # "none" THEN sgd_updates
        ELSE Value({
                 IF long.err # "none" THEN long
                 ELSE Value({Return(b.updates, long.created @@ b.created)
                        : b \in {apply_burnout(long.updates, sgd_updates.updates,
                                               burnout)}})
               : long \in {lr_decay(updates_fn, loss_or_grads, params, learning_rate,
                                    args, decay_period, decay_factor)}})
      : sgd_updates \in {sgd(loss_or_grads, params, learning_rate,
                             DefaultDecayPeriod, DefaultDecayFactor)}})

---------------------------------------------------------------------------
(* norm_constraint, total_norm_constraint                                 *)
(* The value of a tensor is a function from its indices, tuples of one    *)
(* position per axis, to numbers; a scalar has the one index <<>>.        *)

\* tensor_var.ndim
Ndim(x) == Len(CHOOSE i \in DOMAIN x : TRUE)

\* T.sum(x * y) over the indices in I
RECURSIVE SumOfProducts(_, _, _)
SumOfProducts(x, y, I) ==
    IF I = {} THEN Zero
    ELSE LET i == CHOOSE j \in I : TRUE
         IN  RAdd(RMul(x[i], y[i]), SumOfProducts(x, y, I \ {i}))

\* T.sqrt(T.sum(T.sqr(x), axis=sum_over, keepdims=True)) as broadcast to
\* index i: the sum runs over the indices that agree with i on the axes
\* that are kept
norms(x, sum_over, i) ==
    RSqrt(SumOfProducts(x, x,
              {j \in DOMAIN x :
                   \A k \in 1..Len(i) :
                       (\A a \in 1..Len(sum_over) : sum_over[a] # k - 1) => j[k] = i[k]}))

UnsupportedDimensionality == "ValueError: Unsupported tensor dimensionality"

\* the choice of the axes taking 6D tensors with the convolutional ones
sum_over_up_to_6(ndim, norm_axes) ==
    IF norm_axes # None THEN norm_axes
    ELSE IF ndim = 2 THEN Some(<<0>>)
    ELSE IF ndim \in {3, 4, 5, 6} THEN Some([k \in 1..(ndim - 1) |-> k])
    ELSE None

\* the axes the norm is taken over; None where the code raises
sum_over(ndim, norm_axes) ==
    IF norm_axes # None THEN norm_axes
    ELSE IF ndim = 2 THEN Some(<<0>>)
    ELSE IF ndim \in {3, 4, 5} THEN Some([k \in 1..(ndim - 1) |-> k])
    ELSE None

\* norm_constraint with every norm brought to max_norm, the smaller ones too
norm_constraint_to_max(tensor_var, max_norm, norm_axes, epsilon) ==
    Value({IF axes = None THEN Raise(UnsupportedDimensionality, EmptyFn)
           ELSE Return([i \in DOMAIN tensor_var |->
                           Value({RMul(tensor_var[i], RDiv(max_norm, RAdd(epsilon, n)))
                                  : n \in {norms(tensor_var, axes[1], i)}})],
                       EmptyFn)
           : axes \in {sum_over(Ndim(tensor_var), norm_axes)}})

\* the value of the expression norm_constraint returns, for the value
\* tensor_var of its argument
norm_constraint(tensor_var, max_norm, norm_axes, epsilon) ==
    Value({IF axes = None THEN Raise(UnsupportedDimensionality, EmptyFn)
           ELSE Return([i \in DOMAIN tensor_var |->
                           Value({RMul(tensor_var[i],
                                       RDiv(RClip(n, Zero, max_norm), RAdd(epsilon, n)))
                                  : n \in {norms(tensor_var, axes[1], i)}})],
                       EmptyFn)
           : axes \in {sum_over(Ndim(tensor_var), norm_axes)}})

\* sum(T.sum(tensor * target) for tensor, target in zip(...)), first k pairs
RECURSIVE InnerProducts(_, _, _)
InnerProducts(tensor_vars, target_vars, k) ==
    IF k = 0 THEN Zero
    ELSE RAdd(InnerProducts(tensor_vars, target_vars, k - 1),
              SumOfProducts(tensor_vars[k], target_vars[k], DOMAIN tensor_vars[k]))

\* total_norm_constraint without the cap of the multiplier at 1
total_norm_constraint_uncapped(tensor_vars, max_norm, target_vars, return_norm) ==
    Value({Value({Value({IF return_norm THEN <<scaled, norm>> ELSE scaled
             : scaled \in {[k \in 1..Len(tensor_vars) |->
                               [i \in DOMAIN tensor_vars[k] |->
                                    RMul(tensor_vars[k][i], multiplier)]]}})
             : multiplier \in {IF target_vars = None
                               THEN RDiv(max_norm, norm)
                               ELSE RMul(RDiv(max_norm, norm), RDiv(max_norm, norm))}})
             : norm \in {RSqrt(IF target_vars = None
                               THEN InnerProducts(tensor_vars, tensor_vars,
                                                  Len(tensor_vars))
                               ELSE InnerProducts(tensor_vars, target_vars[1],
                                                  Min(Len(tensor_vars),
                                                      Len(target_vars[1]))))}})

\* the values of the expressions total_norm_constraint returns, for the
\* values tensor_vars (and target_vars) of its arguments
total_norm_constraint(tensor_vars, max_norm, target_vars, return_norm) ==
    Value({Value({Value({IF return_norm THEN <<scaled, norm>> ELSE scaled
             : scaled \in {[k \in 1..Len(tensor_vars) |->
                               [i \in DOMAIN tensor_vars[k] |->
                                    RMul(tensor_vars[k][i], multiplier)]]}})
             : multiplier \in {IF target_vars = None
                               THEN RMin(One, RDiv(max_norm, norm))
                               ELSE RMin(One, RMul(RDiv(max_norm, norm),
                                                   RDiv(max_norm, norm)))}})
             : norm \in {RSqrt(IF target_vars = None
                               THEN InnerProducts(tensor_vars, tensor_vars,
                                                  Len(tensor_vars))
                               ELSE InnerProducts(tensor_vars, target_vars[1],
                                                  Min(Len(tensor_vars),
                                                      Len(target_vars[1]))))}})

---------------------------------------------------------------------------
(* The caller: the shared variables it owns and the arguments it passes   *)

P1 == Shared("param", 1)

P2 == Shared("param", 2)

\* the caller's parameter lists; the last holds an expression
ParamLists == {<<P1>>, <<P2, P1>>, <<P1, NonShared(3)>>}

\* a scalar loss, or a list of gradient expressions
LossOrGrads == {Loss, GradList(<<GradIn(1)>>), GradList(<<GradIn(1), GradIn(2)>>)}

\* already created velocity variables, one per parameter
VelocitiesFor(params) == [i \in 1..Len(params) |-> Shared("velocity_in", i)]

CallerStore ==
    (P1 :> Q(2, 1)) @@ (P2 :> Q(-1, 1))
        @@ (Shared("velocity_in", 1) :> Q(3, 1)) @@ (Shared("velocity_in", 2) :> Q(-2, 1))

\* the values a gradient expression takes in a step
GradVals == {Q(-1, 1), Q(2, 1)}

Half == Q(1, 2)

Quarter == Q(1, 4)

\* (decay_period, decay_factor) as passed by keyword
DecayConfigs == {<<p, Half>> : p \in -1..MaxPeriod} \cup {<<MaxPeriod, One>>}

Momenta == {Zero, Half}

NoArgs == [none |-> None]

NoGiven == [updates |-> <<>>, initial |-> <<>>]

\* the indices of the gradient expressions of a call
GradIndices(loss_or_grads, params) ==
    IF loss_or_grads.is_list THEN 1..Len(loss_or_grads.grads)
    ELSE {params[i][2] : i \in 1..Len(params)}

---------------------------------------------------------------------------
(* The state machine: one call that builds the dictionary, then steps     *)

Init ==
    /\ phase = "start"
    /\ call = [fn |-> "none", loss_or_grads |-> Loss, params |-> <<>>,
               learning_rate |-> Const(Zero), args |-> NoArgs,
               decay_period |-> 0, decay_factor |-> One, burnout |-> 0, kwargs |-> {}]
    /\ returned = <<>>
    /\ err = "none"
    /\ created = {}
    /\ given = NoGiven
    /\ store = CallerStore
    /\ steps = 0
    /\ history = <<>>

\* the call c returned or raised r; g holds the dictionaries passed in
Finish(c, r, g) ==
    /\ phase' = IF r.err = "none" THEN "built" ELSE "raised"
    /\ call' = c
    /\ returned' = r.updates
    /\ err' = r.err
    /\ created' = DOMAIN r.created
    /\ given' = g
    /\ store' = store @@ r.created
    /\ UNCHANGED <<steps, history>>

\* the arguments of a call: expressions, as the rule receives them
CallRec(fn, loss_or_grads, params, learning_rate, args, decay) ==
    [fn |-> fn, loss_or_grads |-> loss_or_grads, params |-> params,
     learning_rate |-> learning_rate, args |-> args,
     decay_period |-> decay[1], decay_factor |-> decay[2], burnout |-> 0,
     kwargs |-> {}]

CallSgd ==
    /\ phase = "start"
    /\ \E log \in LossOrGrads, ps \in ParamLists, lr \in {Half, One}, dc \in DecayConfigs :
          \E c \in {CallRec("sgd", log, ps, Const(lr), NoArgs, dc)} :
            Finish(c, sgd(c.loss_or_grads, c.params, c.learning_rate,
                          c.decay_period, c.decay_factor), NoGiven)

CallMomentum ==
    /\ phase = "start"
    /\ \E log \in LossOrGrads, ps \in ParamLists, m \in Momenta, dc \in DecayConfigs :
          \E vs \in {None, Some(VelocitiesFor(ps))} :
            \E c \in {CallRec("momentum", log, ps, Const(Half),
                               [momentum |-> Const(m), velocities |-> vs], dc)} :
              Finish(c, momentum(c.loss_or_grads, c.params, c.learning_rate,
                                 c.args.momentum, c.args.velocities,
                                 c.decay_period, c.decay_factor), NoGiven)

CallNesterovMomentum ==
    /\ phase = "start"
    /\ \E log \in LossOrGrads, ps \in ParamLists, m \in Momenta, dc \in DecayConfigs :
          \E vs \in {None, Some(VelocitiesFor(ps))} :
            \E c \in {CallRec("nesterov_momentum", log, ps, Const(Half),
                               [momentum |-> Const(m), velocities |-> vs], dc)} :
              Finish(c, nesterov_momentum(c.loss_or_grads, c.params, c.learning_rate,
                                          c.args.momentum, c.args.velocities,
                                          c.decay_period, c.decay_factor), NoGiven)

CallAdagrad ==
    /\ phase = "start"
    /\ \E log \in LossOrGrads, ps \in ParamLists, dc \in DecayConfigs :
          \E c \in {CallRec("adagrad", log, ps, Const(Half),
                             [epsilon |-> Const(Quarter)], dc)} :
            Finish(c, adagrad(c.loss_or_grads, c.params, c.learning_rate,
                              c.args.epsilon, c.decay_period, c.decay_factor), NoGiven)

CallRmsprop ==
    /\ phase = "start"
    /\ \E log \in LossOrGrads, ps \in ParamLists, dc \in DecayConfigs :
          \E c \in {CallRec("rmsprop", log, ps, Const(Half),
                             [rho |-> Const(Half), epsilon |-> Const(Quarter)], dc)} :
            Finish(c, rmsprop(c.loss_or_grads, c.params, c.learning_rate, c.args.rho,
                              c.args.epsilon, c.decay_period, c.decay_factor), NoGiven)

CallAdadelta ==
    /\ phase = "start"
    /\ \E log \in LossOrGrads, ps \in ParamLists, dc \in DecayConfigs :
          \E c \in {CallRec("adadelta", log, ps, Const(One),
                             [rho |-> Const(Half), epsilon |-> Const(Quarter)], dc)} :
            Finish(c, adadelta(c.loss_or_grads, c.params, c.learning_rate, c.args.rho,
                               c.args.epsilon, c.decay_period, c.decay_factor), NoGiven)

AdamArgs == [beta1 |-> Const(Half), beta2 |-> Const(Half), epsilon |-> Const(Quarter)]

CallAdam ==
    /\ phase = "start"
    /\ \E log \in LossOrGrads, ps \in ParamLists, dc \in DecayConfigs :
          \E c \in {CallRec("adam", log, ps, Const(Half), AdamArgs, dc)} :
            Finish(c, adam(c.loss_or_grads, c.params, c.learning_rate, c.args.beta1,
                           c.args.beta2, c.args.epsilon,
                           c.decay_period, c.decay_factor), NoGiven)

CallAdamax ==
    /\ phase = "start"
    /\ \E log \in LossOrGrads, ps \in ParamLists, dc \in DecayConfigs :
          \E c \in {CallRec("adamax", log, ps, Const(Half), AdamArgs, dc)} :
            Finish(c, adamax(c.loss_or_grads, c.params, c.learning_rate, c.args.beta1,
                             c.args.beta2, c.args.epsilon,
                             c.decay_period, c.decay_factor), NoGiven)

\* cocob and yellow_fin called without and with the decay keywords
DecayKeywords == {"decay_period", "decay_factor"}

\* the record of a call that passes the keywords kw with decay_period = 1
WithKeywords(c, kw) ==
    [c EXCEPT !.kwargs = kw, !.decay_period = IF kw = {} THEN 0 ELSE 1]

CallCocob ==
    /\ phase = "start"
    /\ \E log \in LossOrGrads, ps \in ParamLists, kw \in {{}, DecayKeywords} :
          \E c \in {WithKeywords(CallRec("cocob", log, ps, Const(Zero),
                                          [alpha |-> Const(Q(1000, 1)),
                                           epsilon |-> Const(Quarter)],
                                          <<0, Half>>), kw)} :
            Finish(c, cocob(c.loss_or_grads, c.params, c.args.alpha, c.args.epsilon,
                            c.kwargs), NoGiven)

CallYellowFin ==
    /\ phase = "start"
    /\ \E log \in LossOrGrads, ps \in ParamLists, kw \in {{}, DecayKeywords} :
          \E c \in {WithKeywords(CallRec("yellow_fin", log, ps, Const(Zero),
                                          [beta |-> Const(Half),
                                           learning_rate_init |-> Quarter,
                                           momentum_init |-> Zero, t |-> None,
                                           window_width |-> WindowWidth],
                                          <<0, Half>>), kw)} :
            Finish(c, yellow_fin(c.loss_or_grads, c.params, c.args.beta,
                                 c.args.learning_rate_init, c.args.momentum_init,
                                 c.args.t, c.args.window_width, c.kwargs), NoGiven)

\* the rules whose dictionary the caller hands to apply_momentum
WrappedRules == {"sgd", "adagrad"}

\* apply_momentum called on the dictionary u of a rule that returned
CallApplyMomentum ==
    /\ phase = "start"
    /\ \E log \in LossOrGrads, ps \in ParamLists, m \in Momenta, fn \in WrappedRules :
          \E vs \in {None, Some(VelocitiesFor(ps))}, po \in {None, Some(ps)} :
            \E u \in {call_updates_fn(fn, log, ps, Const(Half),
                                       [epsilon |-> Const(Quarter)])} :
              /\ u.err = "none"
              /\ \E r \in {apply_momentum(u.updates, po, Const(m), vs)} :
                    Finish(CallRec("apply_momentum", log, ps, Const(Half),
                                   [momentum |-> Const(m), velocities |-> vs,
                                    params |-> po, wrapped |-> fn], <<0, Half>>),
                           [r EXCEPT !.created = u.created @@ @],
                           [updates |-> apply_momentum_argument(u.updates, po,
                                                                Const(m), vs),
                            initial |-> <<>>])

\* apply_nesterov_momentum called on the dictionary u of a rule that
\* returned, for all its keys or for the first parameter only
CallApplyNesterovMomentum ==
    /\ phase = "start"
    /\ \E log \in LossOrGrads, ps \in ParamLists, fn \in WrappedRules :
          \E vs \in {None, Some(VelocitiesFor(ps))}, po \in {None, Some(<<ps[1]>>)} :
            \E u \in {call_updates_fn(fn, log, ps, Const(Half),
                                       [epsilon |-> Const(Quarter)])} :
              /\ u.err = "none"
              /\ \E r \in {apply_nesterov_momentum(u.updates, po, Const(Half), vs)} :
                    Finish(CallRec("apply_nesterov_momentum", log, ps, Const(Half),
                                   [momentum |-> Const(Half), velocities |-> vs,
                                    params |-> po, wrapped |-> fn], <<0, Half>>),
                           [r EXCEPT !.created = u.created @@ @],
                           [updates |-> apply_nesterov_momentum_argument(
                                            u.updates, po, Const(Half), vs),
                            initial |-> <<>>])

\* the rules the caller wraps with a burnout
BurnoutRules == {"momentum", "adagrad"}

BurnoutArgs(fn) ==
    IF fn = "momentum" THEN [momentum |-> Const(Half), velocities |-> None]
    ELSE [epsilon |-> Const(Quarter)]

\* wrap_with_burnout(fn, b)(loss_or_grads, params, learning_rate, **kwargs)
CallWrapWithBurnout ==
    /\ phase = "start"
    /\ \E log \in LossOrGrads, ps \in ParamLists, fn \in BurnoutRules :
          \E b \in 0..MaxBurnout, dp \in {0, 1} :
            \E c \in {[CallRec("wrap_with_burnout", log, ps, Const(Half),
                                BurnoutArgs(fn) @@ [updates_fn |-> fn],
                                <<dp, Half>>) EXCEPT !.burnout = b]} :
              \E long \in {lr_decay(fn, log, ps, c.learning_rate, BurnoutArgs(fn),
                                    c.decay_period, c.decay_factor)},
                 initial \in {sgd(log, ps, c.learning_rate,
                                  DefaultDecayPeriod, DefaultDecayFactor)} :
                Finish(c, wrap_with_burnout(fn, b, log, ps, c.learning_rate,
                                            BurnoutArgs(fn), c.decay_period,
                                            c.decay_factor),
                       [updates |-> long.updates, initial |-> initial.updates])

\* apply_burnout called on the dictionary of a rule and, as the initial
\* one, the dictionary of sgd with a learning rate that decays every step
CallApplyBurnout ==
    /\ phase = "start"
    /\ \E log \in LossOrGrads, ps \in ParamLists, fn \in BurnoutRules :
          \E b \in 0..MaxBurnout :
            \E c \in {[CallRec("apply_burnout", log, ps, Const(Half),
                                BurnoutArgs(fn) @@ [updates_fn |-> fn],
                                <<0, Half>>) EXCEPT !.burnout = b]} :
              \E long \in {call_updates_fn(fn, log, ps, c.learning_rate,
                                            BurnoutArgs(fn))},
                 initial \in {sgd(log, ps, c.learning_rate, 1, Half)} :
                /\ long.err = "none"
                /\ initial.err = "none"
                /\ \E r \in {apply_burnout(long.updates, initial.updates, b)} :
                      Finish(c,
                             [r EXCEPT !.created = long.created @@ initial.created @@ @],
                             [updates |-> long.updates, initial |-> initial.updates])

\* the average a caller keeps with ema, and the step count it passes as t
EmaState == Shared("ema_state", 0)

EmaClock == Shared("ema_t", 0)

\* init_period as the caller passes it: left out, or a number
InitPeriods == {None, Some(0), Some(1), Some(2), Some(3)}

\* a caller that smooths the gradient of its parameter with ema, as
\* gradient_variance does, without t or with its own step count as t
CallEma ==
    /\ phase = "start"
    /\ \E timed \in BOOLEAN, ip \in InitPeriods :
          \E c \in {CallRec("ema", Loss, <<P1>>, Const(Zero),
                             [alpha |-> Const(Half),
                              t |-> IF timed THEN Some(Var(EmaClock)) ELSE None,
                              init_period |-> ip], <<0, Half>>)} :
            \E e \in {ema(c.args.alpha, Var(EmaState), GradWrt(P1), c.args.t,
                          c.args.init_period)} :
              Finish(c,
                     IF timed
                     THEN Return(<<<<EmaState, e>>,
                                   <<EmaClock, Add(Var(EmaClock), Const(One))>>>>,
                                 (EmaState :> Zero) @@ (EmaClock :> Zero))
                     ELSE Return(<<<<EmaState, e>>>>, (EmaState :> Zero)),
                     NoGiven)

\* the columns of the tensors the caller constrains
Columns == {<<3, 4>>, <<0, 1>>, <<0, 0>>}

\* a tensor with r axes, two positions on each of the first two axes and
\* one on every further axis, holding cols[c][i] at row i of column c
TensorOfRank(r, cols) ==
    [i \in {j \in [1..r -> {1, 2}] : \A k \in 1..r : k > 2 => j[k] = 1} |->
         Q(cols[IF r >= 2 THEN i[2] ELSE 1][IF r >= 1 THEN i[1] ELSE 1], 1)]

\* norm_axes as the caller passes it for a tensor with r axes
NormAxes(r) ==
    {None} \cup (IF r = 0 THEN {Some(<<>>)} ELSE {Some(<<0>>), Some(<<r - 1>>)})

\* the call c gave the value r, or raised
Evaluated(c, r) ==
    /\ phase' = IF r.err = "none" THEN "evaluated" ELSE "raised"
    /\ call' = c
    /\ returned' = r.updates
    /\ err' = r.err
    /\ UNCHANGED <<created, given, store, steps, history>>

CallNormConstraint ==
    /\ phase = "start"
    /\ \E r \in 0..MaxRank, c1 \in Columns, c2 \in Columns, max_norm \in {1, 2} :
          \E axes \in NormAxes(r), epsilon \in {Zero, Quarter} :
            \E c \in {CallRec("norm_constraint", Loss, <<>>, Const(Zero),
                               [tensor_var |-> TensorOfRank(r, <<c1, c2>>),
                                max_norm |-> Q(max_norm, 1), norm_axes |-> axes,
                                epsilon |-> epsilon], <<0, Half>>)} :
              Evaluated(c, norm_constraint(c.args.tensor_var, c.args.max_norm,
                                           c.args.norm_axes, c.args.epsilon))

\* the lists of tensors the caller rescales together
TensorLists ==
    {<<TensorOfRank(1, <<<<3, 4>>>>)>>,
     <<TensorOfRank(1, <<<<3, 0>>>>), TensorOfRank(1, <<<<0, 4>>>>)>>,
     <<TensorOfRank(1, <<<<0, 0>>>>), TensorOfRank(0, <<<<0>>>>)>>,
     <<TensorOfRank(0, <<<<1>>>>)>>,
     <<TensorOfRank(2, <<<<1, 2>>, <<2, 0>>>>)>>,
     <<TensorOfRank(1, <<<<2, 4>>>>), TensorOfRank(0, <<<<4>>>>),
       TensorOfRank(0, <<<<8>>>>)>>}

CallTotalNormConstraint ==
    /\ phase = "start"
    /\ \E ts \in TensorLists, max_norm \in {1, 3, 5}, with_targets \in BOOLEAN :
          \E return_norm \in BOOLEAN :
            \E c \in {CallRec("total_norm_constraint", Loss, <<>>, Const(Zero),
                               [tensor_vars |-> ts, max_norm |-> Q(max_norm, 1),
                                target_vars |-> IF with_targets THEN Some(ts) ELSE None,
                                return_norm |-> return_norm], <<0, Half>>)} :
              Evaluated(c, Return(total_norm_constraint(c.args.tensor_vars,
                                                        c.args.max_norm,
                                                        c.args.target_vars,
                                                        c.args.return_norm),
                                  EmptyFn))

\* one execution of the function compiled from the returned dictionary
Step ==
    /\ phase = "built"
    /\ steps < MaxSteps
    /\ \E env \in [GradIndices(call.loss_or_grads, call.params) -> GradVals] :
        /\ store' = Execute(returned, store, env)
        /\ history' = Append(history, env)
    /\ steps' = steps + 1
    /\ UNCHANGED <<phase, call, returned, err, created, given>>

Next ==
    \/ CallSgd
    \/ CallMomentum
    \/ CallNesterovMomentum
    \/ CallAdagrad
    \/ CallRmsprop
    \/ CallAdadelta
    \/ CallAdam
    \/ CallAdamax
    \/ CallCocob
    \/ CallYellowFin
    \/ CallApplyMomentum
    \/ CallApplyNesterovMomentum
    \/ CallWrapWithBurnout
    \/ CallApplyBurnout
    \/ CallEma
    \/ CallNormConstraint
    \/ CallTotalNormConstraint
    \/ Step

Spec == Init /\ [][Next]_vars

---------------------------------------------------------------------------
(* What the properties below speak about                                  *)

Rules == {"sgd", "momentum", "nesterov_momentum", "adagrad", "rmsprop", "adadelta",
          "adam", "adamax", "cocob", "yellow_fin"}

\* the rules defined under @lr_decay
Decorated == Rules \ {"cocob", "yellow_fin"}

Keys == ODKeys(returned)

ParamSet == {call.params[i] : i \in 1..Len(call.params)}

LearningRateCell == Shared("learning_rate", 0)

DecayCountCell == Shared("decay_count", 1)

\* the call asked for a decaying learning rate
Decaying == call.decay_period > 0 /\ call.decay_factor # One

\* the gradient values of the step being taken
LastEnv == history'[Len(history')]

\* the cells the caller created before the call and passed as velocities
SuppliedCells ==
    IF call.fn \in {"momentum", "nesterov_momentum"} /\ call.args.velocities # None
    THEN {call.args.velocities[1][i] : i \in 1..Len(call.args.velocities[1])}
    ELSE {}

\* the velocity variable of the i-th parameter of a momentum call
VelocityCell(i) ==
    IF call.args.velocities = None THEN Shared("velocity", i)
    ELSE call.args.velocities[1][i]

\* the learning rate a decorated rule reads in the step being taken
StepLearningRate ==
    IF Decaying THEN store[LearningRateCell] ELSE call.learning_rate[2]

\* the value of the i-th gradient expression in the step being taken
StepGrad(i) ==
    Eval(get_or_compute_grads(call.loss_or_grads, call.params).grads[i], store, LastEnv)

BadKind == \E i \in 1..Len(call.params) : ~IsShared(call.params[i])

Mismatch ==
    call.loss_or_grads.is_list /\ Len(call.loss_or_grads.grads) # Len(call.params)

\* the store after the first k steps of history, run with the dictionary od
RECURSIVE Run(_, _, _, _)
Run(od, st, hist, k) ==
    IF k = 0 THEN st
    ELSE Value({Execute(od, s, hist[k]) : s \in {Run(od, st, hist, k - 1)}})

---------------------------------------------------------------------------
(* C1 *)

\* the returned dictionary names no variable twice
NoDuplicateKeys ==
    \A i, j \in 1..Len(returned) : returned[i][1] = returned[j][1] => i = j

\* C1: for every update rule, the keys of the returned dictionary are
\* exactly the parameters passed in and the state variables of the call
\* (those it created, and the velocities it was handed), each once.
C1_KeysAreParamsAndState ==
    (phase = "built" /\ call.fn \in Rules) =>
        /\ Keys = ParamSet \cup created \cup SuppliedCells
        /\ NoDuplicateKeys

---------------------------------------------------------------------------
(* C2, C3: lr_decay and apply_decay *)

\* C2: with decay_period = P > 0 and decay_factor = f # 1, after n steps the
\* learning-rate variable holds lr0 * f^floor(n/P) and the counter holds
\* (n mod P) + 1: one multiplication every P steps, the counter back at 1
\* with each, and always within 1..P.
C2_LearningRateDecays ==
    (phase = "built" /\ call.fn \in Decorated /\ Decaying) =>
        /\ store[LearningRateCell] =
               RMul(call.learning_rate[2],
                    RPowInt(call.decay_factor, steps \div call.decay_period))
        /\ store[DecayCountCell] = Q((steps % call.decay_period) + 1, 1)
        /\ store[DecayCountCell][1] \in 1..call.decay_period

\* the learning rate was halved at the second step of a call with period 2
C2_Witness ==
    /\ phase = "built" /\ call.fn = "rmsprop" /\ Decaying
    /\ call.decay_period = 2 /\ steps = 2
    /\ store[DecayCountCell] = One
    /\ store[LearningRateCell] = Quarter

\* C3: a decorated rule called with decay_period <= 0 or decay_factor = 1
\* returns (or raises) what the undecorated rule does with the learning rate
\* as passed; no learning-rate variable and no counter is created or is a
\* key; and the store after every step is the one the undecorated rule's
\* dictionary gives.
C3_NoDecayIsUndecorated ==
    (phase # "start" /\ call.fn \in Decorated /\ ~Decaying) =>
        \A u \in {call_updates_fn(call.fn, call.loss_or_grads, call.params,
                                  call.learning_rate, call.args)} :
            /\ err = u.err
            /\ returned = u.updates
            /\ created = DOMAIN u.created
            /\ \A c \in created \cup Keys : c[1] \notin {"learning_rate", "decay_count"}
            /\ phase = "built" =>
                   store = Run(u.updates, CallerStore @@ u.created, history, steps)

\* adam stepped twice after a call with decay_factor = 1 and a positive period
C3_Witness ==
    /\ phase = "built" /\ call.fn = "adam" /\ steps = 2
    /\ call.decay_period > 0 /\ call.decay_factor = One

---------------------------------------------------------------------------
(* C4: apply_burnout *)

BurnoutCell == Shared("momentum_t", 0)

\* the keys the long and the initial dictionary share
SharedKeys == ODKeys(given.updates) \cap ODKeys(given.initial)

\* C4: with burnout = B > 0 the counter holds the number of steps taken,
\* from 0, and in a step each key of both dictionaries takes the initial
\* dictionary's value while the counter is below B and the long
\* dictionary's value from B on.
C4_BurnoutIsHardSwitch ==
    [][(phase = "built" /\ call.fn = "wrap_with_burnout" /\ call.burnout > 0
            /\ steps' = steps + 1) =>
         /\ store[BurnoutCell] = Q(steps, 1)
         /\ store'[BurnoutCell] = Q(steps + 1, 1)
         /\ \A k \in SharedKeys :
               store'[k] = Eval(IF steps < call.burnout THEN ODGet(given.initial, k)
                                ELSE ODGet(given.updates, k), store, LastEnv)]_vars

\* three steps of a wrapped momentum with burnout 2: the last one past the switch
C4_Witness ==
    /\ phase = "built" /\ call.fn = "wrap_with_burnout"
    /\ call.args.updates_fn = "momentum"
    /\ call.burnout = 2 /\ steps = 3
    /\ store[BurnoutCell] = Q(3, 1)
    /\ store[Shared("velocity", 1)] # Zero

---------------------------------------------------------------------------
(* C5, C6, C7: the momentum combinators and rules *)

\* the keys apply_momentum was asked to wrap, paired with their velocities
WrappedParams ==
    IF call.args.params = None THEN ODKeyList(given.updates) ELSE call.args.params[1]

WrappedCount ==
    IF call.args.velocities = None THEN Len(WrappedParams)
    ELSE Min(Len(WrappedParams), Len(call.args.velocities[1]))

\* C5: apply_momentum with momentum = 0: in every step each wrapped
\* parameter takes the value the wrapped dictionary gives it, and its
\* velocity that value minus the parameter.
C5_ZeroMomentumIsWrappedRule ==
    [][(phase = "built" /\ call.fn = "apply_momentum"
            /\ call.args.momentum = Const(Zero) /\ steps' = steps + 1) =>
         \A i \in 1..WrappedCount :
            \A raw \in {Eval(ODGet(given.updates, WrappedParams[i]), store, LastEnv)} :
               /\ store'[WrappedParams[i]] = raw
               /\ store'[VelocityCell(i)] = RSub(raw, store[WrappedParams[i]])]_vars

\* two steps with momentum 0 on adagrad's dictionary, velocities passed in
C5_Witness ==
    /\ phase = "built" /\ call.fn = "apply_momentum"
    /\ call.args.momentum = Const(Zero) /\ call.args.wrapped = "adagrad"
    /\ call.args.velocities # None /\ steps = 2

\* what apply_momentum makes of sgd's dictionary for the arguments of the
\* call, the learning rate being the variable when it decays
SgdThenApplyMomentum ==
    apply_momentum(
        sgd(call.loss_or_grads, call.params,
            IF Decaying THEN Var(LearningRateCell) ELSE call.learning_rate,
            DefaultDecayPeriod, DefaultDecayFactor).updates,
        None, call.args.momentum, call.args.velocities).updates

\* C6: momentum returns apply_momentum of sgd's dictionary (with the decay
\* of the learning rate added when asked for) and runs like the classic
\* rule: the velocities start at zero unless passed in, and in every step
\* velocity' = m * velocity - lr * grad and param' = param + velocity'.
C6_MomentumIsClassic ==
    [][(phase = "built" /\ call.fn = "momentum" /\ steps' = steps + 1) =>
         /\ returned = apply_decay(SgdThenApplyMomentum, <<LearningRateCell>>,
                                   IF Decaying THEN call.decay_period ELSE 0,
                                   call.decay_factor).updates
         /\ \A i \in 1..Len(call.params) :
               \A v \in {RSub(RMul(call.args.momentum[2], store[VelocityCell(i)]),
                              RMul(StepLearningRate, StepGrad(i)))} :
                  /\ (steps = 0 /\ call.args.velocities = None)
                         => store[VelocityCell(i)] = Zero
                  /\ store'[VelocityCell(i)] = v
                  /\ store'[call.params[i]] = RAdd(store[call.params[i]], v)]_vars

\* momentum 1/2 from zero velocities, three steps on two parameters
C6_Witness ==
    /\ phase = "built" /\ call.fn = "momentum" /\ steps = 3
    /\ call.args.momentum = Const(Half) /\ call.args.velocities = None
    /\ Len(call.params) = 2
    /\ store[Shared("velocity", 2)] # Zero

\* C7: nesterov_momentum: in every step velocity' = m * velocity - lr * grad
\* and param' = param + m * velocity' - lr * grad.
C7_NesterovLooksAhead ==
    [][(phase = "built" /\ call.fn = "nesterov_momentum" /\ steps' = steps + 1) =>
         \A i \in 1..Len(call.params) :
            \A lrg \in {RMul(StepLearningRate, StepGrad(i))} :
              \A v \in {RSub(RMul(call.args.momentum[2], store[VelocityCell(i)]), lrg)} :
                 /\ store'[VelocityCell(i)] = v
                 /\ store'[call.params[i]] =
                        RSub(RAdd(store[call.params[i]],
                                  RMul(call.args.momentum[2], v)), lrg)]_vars

\* nesterov momentum 1/2 on velocities passed in, with a decaying learning rate
C7_Witness ==
    /\ phase = "built" /\ call.fn = "nesterov_momentum" /\ steps = 3
    /\ call.args.momentum = Const(Half) /\ call.args.velocities # None
    /\ Decaying

---------------------------------------------------------------------------
(* C8: get_or_compute_grads *)

\* C8: a parameter that is no shared variable, with a loss or with a list,
\* and a list of another length than the parameters, make the call raise
\* and return no dictionary; otherwise there is one gradient per parameter,
\* in the order of the parameters.
C8_GradientResolution ==
    (phase # "start") =>
        \A r \in {get_or_compute_grads(call.loss_or_grads, call.params)} :
            /\ BadKind => r.err = ParamsNotShared /\ r.grads = <<>>
            /\ (~BadKind /\ Mismatch) => r.err = GradCountMismatch /\ r.grads = <<>>
            /\ ((BadKind \/ Mismatch) /\ call.kwargs = {}) =>
                   phase = "raised" /\ err = r.err /\ returned = <<>>
            /\ (~BadKind /\ ~Mismatch) =>
                   /\ r.err = "none"
                   /\ Len(r.grads) = Len(call.params)
                   /\ \A i \in 1..Len(call.params) :
                         r.grads[i] = IF call.loss_or_grads.is_list
                                      THEN call.loss_or_grads.grads[i]
                                      ELSE GradWrt(call.params[i])

\* a scalar loss with a parameter that is an expression
C8_Witness ==
    /\ phase = "raised" /\ err = ParamsNotShared
    /\ ~call.loss_or_grads.is_list /\ BadKind

---------------------------------------------------------------------------
(* C9: which rules take the decay keywords *)

\* C9 as stated: every rule, cocob and yellow_fin too, called with
\* decay_period > 0 on valid arguments returns a dictionary, in which the
\* learning rate is a variable that decays.
C9_AllRulesTakeDecay ==
    (phase # "start" /\ call.fn \in Rules /\ call.decay_period > 0
         /\ ~BadKind /\ ~Mismatch) =>
        /\ phase = "built"
        /\ call.decay_factor # One =>
               LearningRateCell \in created /\ {LearningRateCell, DecayCountCell} \subseteq Keys

\* C9 amended: the eight rules under @lr_decay called with decay_period > 0
\* on valid arguments return a dictionary, and with decay_factor # 1 the
\* learning rate is a variable of the call with its counter among the keys;
\* cocob and yellow_fin raise TypeError on the decay keywords.
C9_DecoratedRulesTakeDecay ==
    /\ (phase # "start" /\ call.fn \in Decorated /\ call.decay_period > 0
            /\ ~BadKind /\ ~Mismatch) =>
           /\ phase = "built"
           /\ call.decay_factor # One =>
                  /\ LearningRateCell \in created
                  /\ {LearningRateCell, DecayCountCell} \subseteq Keys
    /\ (phase # "start" /\ call.fn \in {"cocob", "yellow_fin"} /\ call.kwargs # {}) =>
           phase = "raised" /\ err = UnexpectedKeyword /\ returned = <<>>

\* yellow_fin called with the decay keywords on valid arguments
C9_Witness ==
    /\ call.fn = "yellow_fin" /\ call.kwargs = DecayKeywords
    /\ ~BadKind /\ ~Mismatch /\ phase = "raised"

---------------------------------------------------------------------------
(* C10: cocob's statistics *)

\* C10: in every step of cocob, for each parameter, s grows by the
\* gradient, g by its absolute value, l becomes the larger of 0.999 * l and
\* the gradient's absolute value, and r becomes r - param * grad clipped to
\* [0, 1000].
C10_CocobKeepsStatistics ==
    [][(phase = "built" /\ call.fn = "cocob" /\ steps' = steps + 1) =>
         \A i \in 1..Len(call.params) :
            \A grad \in {StepGrad(i)} :
               /\ store'[Shared("s", i)] = RAdd(store[Shared("s", i)], grad)
               /\ store'[Shared("g", i)] = RAdd(store[Shared("g", i)], RAbs(grad))
               /\ store'[Shared("l", i)] =
                      RMax(RMul(store[Shared("l", i)], Q(999, 1000)), RAbs(grad))
               /\ store'[Shared("r", i)] =
                      RClip(RSub(store[Shared("r", i)],
                                 RMul(store[call.params[i]], grad)), Zero, Q(1000, 1))]_vars

---------------------------------------------------------------------------
(* C11: adam's step counter *)

\* the step counter of an adam call
AdamCounter == Shared("t_prev", 0)

\* lr * sqrt(1 - beta2^t) / (1 - beta1^t) for the arguments of the call
AdamRate(t) ==
    RDiv(RMul(StepLearningRate, RSqrt(RSub(One, RPowInt(call.args.beta2[2], t)))),
         RSub(One, RPowInt(call.args.beta1[2], t)))

\* C11: an adam call has one step counter, whatever the number of
\* parameters; it is 0 before the first step and grows by exactly 1 with
\* every step; the correction factor of a step is computed from the
\* incremented counter t' = t + 1, so that the first step moves each
\* parameter by lr * sqrt(1 - beta2) / (1 - beta1) * m' / (sqrt(v') + eps),
\* a factor that is not the plain lr.
C11_AdamCountsSteps ==
    [][(phase = "built" /\ call.fn = "adam" /\ steps' = steps + 1) =>
         /\ {c \in Keys : c[1] = "t_prev"} = {AdamCounter}
         /\ store[AdamCounter] = Q(steps, 1)
         /\ store'[AdamCounter] = Q(steps + 1, 1)
         /\ \A a \in {AdamRate(steps + 1)} :
              /\ steps = 0 =>
                   /\ a = RDiv(RMul(StepLearningRate,
                                    RSqrt(RSub(One, call.args.beta2[2]))),
                               RSub(One, call.args.beta1[2]))
                   /\ a # StepLearningRate
              /\ \A i \in 1..Len(call.params) :
                   store'[call.params[i]] =
                       RSub(store[call.params[i]],
                            RDiv(RMul(a, store'[Shared("m_prev", i)]),
                                 RAdd(RSqrt(store'[Shared("v_prev", i)]),
                                      call.args.epsilon[2])))]_vars

\* adam stepped three times on two parameters
C11_Witness ==
    /\ phase = "built" /\ call.fn = "adam" /\ steps = 3
    /\ Len(call.params) = 2
    /\ store[AdamCounter] = Q(3, 1)

---------------------------------------------------------------------------
(* C12: yellow_fin's window *)

\* the window of a yellow_fin call and its own step counter
WindowCell == Shared("window", 0)

StepCountCell == Shared("t", 0)

\* the sum of the squared gradients of the k-th step of hist
Observation(hist, k) ==
    Eval(SumSqr(get_or_compute_grads(call.loss_or_grads, call.params).grads,
                Len(call.params)), store, hist[k])

\* the observations of the last min(n, width) of the first n steps of hist
Recent(hist, n) ==
    {Observation(hist, k) : k \in (n - Min(n, call.args.window_width) + 1)..n}

Largest(S) == CHOOSE x \in S : \A y \in S : RLe(y, x)

Smallest(S) == CHOOSE x \in S : \A y \in S : RLe(x, y)

\* C12: in yellow_fin with its own counter, the counter is the number of
\* steps taken; the window always has window_width slots; step t writes the
\* sum of the squared gradients into slot t mod window_width and leaves the
\* other slots alone; and the maximum and minimum averaged into h_max and
\* h_min at step t are those of the min(t + 1, window_width) most recent
\* observations, so never of a slot not yet written.
C12_WindowIsCircular ==
    [][(phase = "built" /\ call.fn = "yellow_fin" /\ steps' = steps + 1) =>
         \A w \in {call.args.window_width}, beta \in {call.args.beta[2]} :
            /\ call.args.t = None
            /\ store[StepCountCell] = Q(steps, 1)
            /\ store'[StepCountCell] = Q(steps + 1, 1)
            /\ Len(store[WindowCell]) = w
            /\ Len(store'[WindowCell]) = w
            /\ \A k \in 1..w :
                  store'[WindowCell][k] =
                      IF k = (steps % w) + 1 THEN Observation(history', steps + 1)
                      ELSE store[WindowCell][k]
            /\ store'[Shared("h_max", 0)] =
                   RAdd(RMul(beta, store[Shared("h_max", 0)]),
                        RMul(RSub(One, beta), Largest(Recent(history', steps + 1))))
            /\ store'[Shared("h_min", 0)] =
                   RAdd(RMul(beta, store[Shared("h_min", 0)]),
                        RMul(RSub(One, beta), Smallest(Recent(history', steps + 1))))]_vars

\* three steps with a window of two slots: the third wrote slot 0 again,
\* over a larger observation
C12_Witness ==
    /\ phase = "built" /\ call.fn = "yellow_fin" /\ steps = MaxSteps
    /\ MaxSteps > call.args.window_width
    /\ Observation(history, 1) = Q(4, 1)
    /\ Observation(history, steps) = Q(1, 1)
    /\ store[WindowCell][((steps - 1) % call.args.window_width) + 1] = Q(1, 1)

---------------------------------------------------------------------------
(* C13: the correction modes of exponential_moving_average *)

\* alpha * state + (1 - alpha) * observation at the step being taken
Smoothed(alpha) ==
    RAdd(RMul(alpha, store[EmaState]), RMul(RSub(One, alpha), StepGrad(1)))

\* alpha * min(1, (T - 1) * t / T^2 + 1 / T)
RampedAlpha(alpha, T, t) ==
    RMul(alpha, RMin(One, RAdd(RDiv(RMul(Q(T - 1, 1), Q(t, 1)), Q(T * T, 1)),
                               Q(1, T))))

---------------------------------------------------------------------------
(* C14, C15: norm_constraint *)

\* the tensor x with each entry multiplied by clip(n, 0, max_norm) / (eps + n),
\* n its norm over the axes in axes
Rescaled(x, axes) ==
    [i \in DOMAIN x |->
         RMul(x[i], RDiv(RClip(norms(x, axes, i), Zero, call.args.max_norm),
                         RAdd(call.args.epsilon, norms(x, axes, i))))]

\* C14: norm_constraint takes the norm over norm_axes whenever they are
\* given, whatever the number of axes of the tensor; without them over axis
\* 0 for 2 axes and over all axes but axis 0 for 3, 4 and 5 axes; and for
\* any other number of axes (0, 1, 6 and more) it raises and gives no output.
C14_NormAxesByRank ==
    (phase # "start" /\ call.fn = "norm_constraint") =>
        \A x \in {call.args.tensor_var} :
            /\ call.args.norm_axes # None =>
                   phase = "evaluated" /\ returned = Rescaled(x, call.args.norm_axes[1])
            /\ (call.args.norm_axes = None /\ Ndim(x) = 2) =>
                   phase = "evaluated" /\ returned = Rescaled(x, <<0>>)
            /\ (call.args.norm_axes = None /\ Ndim(x) \in {3, 4, 5}) =>
                   /\ phase = "evaluated"
                   /\ returned = Rescaled(x, [k \in 1..(Ndim(x) - 1) |-> k])
            /\ (call.args.norm_axes = None /\ Ndim(x) \notin {2, 3, 4, 5}) =>
                   /\ phase = "raised"
                   /\ err = UnsupportedDimensionality
                   /\ returned = <<>>

\* a tensor with six axes and no norm_axes
C14_Witness ==
    /\ phase = "raised" /\ call.fn = "norm_constraint"
    /\ Ndim(call.args.tensor_var) = 6 /\ call.args.norm_axes = None

\* the norm of column c of the matrix x
ColumnNorm(x, c) == RSqrt(SumOfProducts(x, x, {j \in DOMAIN x : j[2] = c}))

\* norm_constraint was given a matrix and took the norms of its columns
OnColumns ==
    /\ phase = "evaluated" /\ call.fn = "norm_constraint"
    /\ Ndim(call.args.tensor_var) = 2
    /\ call.args.norm_axes \in {None, Some(<<0>>)}

---------------------------------------------------------------------------
(* C16: total_norm_constraint *)

\* the norm of all the tensors of ts together
JointNorm(ts) == RSqrt(InnerProducts(ts, ts, Len(ts)))

\* the rescaled tensors a call of total_norm_constraint returned
ScaledTensors == IF call.args.return_norm THEN returned[1] ELSE returned

\* C16: total_norm_constraint without target_vars and with max_norm > 0
\* multiplies every entry of every tensor by the one number
\* m = min(1, max_norm / joint norm); m is at most 1; it is 1, and the
\* tensors come back as they are, when the joint norm is at most max_norm;
\* otherwise the joint norm of what comes back is max_norm; and with
\* return_norm the joint norm of the arguments is returned too.
C16_TotalNormScalesAllAlike ==
    (phase = "evaluated" /\ call.fn = "total_norm_constraint"
         /\ call.args.target_vars = None) =>
        \A ts \in {call.args.tensor_vars}, max_norm \in {call.args.max_norm} :
            \A norm \in {JointNorm(ts)} :
               \A m \in {RMin(One, RDiv(max_norm, norm))} :
                  /\ RLt(Zero, max_norm)
                  /\ RLe(m, One)
                  /\ Len(ScaledTensors) = Len(ts)
                  /\ \A k \in 1..Len(ts) :
                        /\ DOMAIN ScaledTensors[k] = DOMAIN ts[k]
                        /\ \A i \in DOMAIN ts[k] :
                              ScaledTensors[k][i] = RMul(ts[k][i], m)
                  /\ RLe(norm, max_norm) => m = One /\ ScaledTensors = ts
                  /\ RLt(max_norm, norm) => JointNorm(ScaledTensors) = max_norm
                  /\ call.args.return_norm => Len(returned) = 2 /\ returned[2] = norm

\* three tensors of joint norm 10 with max_norm = 3, the norm asked for
C16_Witness ==
    /\ phase = "evaluated" /\ call.fn = "total_norm_constraint"
    /\ call.args.target_vars = None /\ call.args.return_norm
    /\ Len(call.args.tensor_vars) = 3
    /\ call.args.max_norm = Q(3, 1)
    /\ returned[2] = Q(10, 1)
    /\ JointNorm(returned[1]) = Q(3, 1)

---------------------------------------------------------------------------
(* C17: a step reads the values from before the step *)

\* lr0 * f^floor(n / P) for the decay the call asked for
DecayedRate(n) ==
    RMul(call.learning_rate[2],
         RPowInt(call.decay_factor, n \div call.decay_period))

\* the dictionary of the undecorated rule for the constant learning rate lr
WithConstantRate(lr) ==
    call_updates_fn(call.fn, call.loss_or_grads, call.params, Const(lr),
                    call.args).updates

\* C17: with a decaying learning rate (period P, factor f), step k of a
\* rule gives every variable but the learning rate and its counter the
\* value the rule gives it for the rate lr0 * f^floor((k-1)/P), computed
\* from the values before the step; the learning rate itself holds
\* lr0 * f^floor(k/P) after the step. So the step on which the decay fires
\* still moves the parameters by the undecayed rate, and the decayed rate
\* is first used one step later.
C17_StepReadsOldRate ==
    [][(phase = "built" /\ call.fn \in Decorated /\ Decaying /\ steps' = steps + 1) =>
         /\ store[LearningRateCell] = DecayedRate(steps)
         /\ store'[LearningRateCell] = DecayedRate(steps + 1)
         /\ \A u \in {WithConstantRate(DecayedRate(steps))} :
               /\ ODKeys(u) = Keys \ {LearningRateCell, DecayCountCell}
               /\ \A c \in ODKeys(u) : store'[c] = Eval(ODGet(u, c), store, LastEnv)
         /\ (call.fn = "sgd" /\ call.params = <<P1>>) =>
                store'[P1] = RSub(store[P1], RMul(DecayedRate(steps), StepGrad(1)))]_vars

\* sgd with a decay every second step, after the second step: the rate is
\* halved, and both steps moved the parameter by the rate passed in
C17_Witness ==
    /\ phase = "built" /\ call.fn = "sgd" /\ Decaying /\ steps = 2
    /\ call.decay_period = 2 /\ call.params = <<P1>>
    /\ call.loss_or_grads = Loss
    /\ store[LearningRateCell] = RMul(call.learning_rate[2], call.decay_factor)
    /\ store[P1] = RSub(CallerStore[P1],
                        RMul(call.learning_rate[2],
                             RAdd(history[1][1], history[2][1])))

---------------------------------------------------------------------------
(* C18: the combinators write to a copy *)

\* the dictionary the caller built and passed to the combinator
PassedIn ==
    call_updates_fn(call.args.wrapped, call.loss_or_grads, call.params,
                    call.learning_rate, [epsilon |-> Const(Quarter)]).updates

\* the keys the combinator rewrote and the velocities it paired them with
Targeted == {WrappedParams[i] : i \in 1..WrappedCount}

TargetedVelocities == {VelocityCell(i) : i \in 1..WrappedCount}

---------------------------------------------------------------------------
(* C19: adadelta *)

---------------------------------------------------------------------------
(* C20: adagrad *)

\* lr / sqrt(accu + eps) for the arguments of an adagrad call
EffectiveStep(accu) ==
    RDiv(call.learning_rate[2], RSqrt(RAdd(accu, call.args.epsilon[2])))

\* C20: in adagrad the accumulator of every parameter is 0 before the
\* first step and never negative; every step adds the squared gradient to
\* it, so it never decreases; the parameter moves by
\* lr * grad / sqrt(accu' + eps); and for a learning rate that does not
\* decay the effective step size lr / sqrt(accu' + eps) of a step is at
\* most that of the step before.
C20_AdagradAccumulates ==
    [][(phase = "built" /\ call.fn = "adagrad" /\ steps' = steps + 1) =>
         \A i \in 1..Len(call.params) :
            \A accu \in {store[Shared("accu", i)]}, grad \in {StepGrad(i)} :
               \A accu_new \in {store'[Shared("accu", i)]} :
                  /\ steps = 0 => accu = Zero
                  /\ RLe(Zero, accu)
                  /\ accu_new = RAdd(accu, RMul(grad, grad))
                  /\ RLe(accu, accu_new)
                  /\ store'[call.params[i]] =
                         RSub(store[call.params[i]],
                              RDiv(RMul(StepLearningRate, grad),
                                   RSqrt(RAdd(accu_new, call.args.epsilon[2]))))
                  /\ ~Decaying => RLe(EffectiveStep(accu_new), EffectiveStep(accu))]_vars

\* three steps of adagrad with a fixed learning rate: the accumulator of
\* the second parameter has grown to at least 3
C20_Witness ==
    /\ phase = "built" /\ call.fn = "adagrad" /\ steps = 3 /\ ~Decaying
    /\ Len(call.params) = 2
    /\ RLe(Q(3, 1), store[Shared("accu", 2)])
    /\ RLt(EffectiveStep(store[Shared("accu", 2)]), EffectiveStep(Zero))

---------------------------------------------------------------------------
(* C21: the ramp of exponential_moving_average *)

\* the caller passes its step count as t and an init_period T >= 1
Ramping ==
    /\ phase = "built" /\ call.fn = "ema"
    /\ call.args.t # None /\ call.args.init_period # None
    /\ call.args.init_period[1] >= 1

\* C21 as stated: with init_period = T >= 1 and alpha > 0 the coefficient
\* alpha * min(1, (T-1)*t/T^2 + 1/T) the step t smooths with does not
\* decrease with t, is smaller than alpha at every step t < T, and is alpha
\* at every step t >= T.
C21_RampBelowAlphaUntilT ==
    [][(Ramping /\ steps' = steps + 1) =>
         \A alpha \in {call.args.alpha[2]}, T \in {call.args.init_period[1]} :
            \A a \in {RampedAlpha(alpha, T, steps)} :
               /\ RLt(Zero, alpha)
               /\ store'[EmaState] = Smoothed(a)
               /\ RLe(a, RampedAlpha(alpha, T, steps + 1))
               /\ steps < T => RLt(a, alpha)
               /\ steps >= T => a = alpha]_vars

\* C21 amended: the coefficient does not decrease with t and is alpha at
\* every step t >= T; for T >= 2 it is smaller than alpha at every step
\* t < T; for T = 1 it is alpha at every step, step 0 included.
C21_RampBelowAlphaUntilTFromTwo ==
    [][(Ramping /\ steps' = steps + 1) =>
         \A alpha \in {call.args.alpha[2]}, T \in {call.args.init_period[1]} :
            \A a \in {RampedAlpha(alpha, T, steps)} :
               /\ RLt(Zero, alpha)
               /\ store'[EmaState] = Smoothed(a)
               /\ store[EmaState] # StepGrad(1) =>
                      a = RDiv(RSub(store'[EmaState], StepGrad(1)),
                               RSub(store[EmaState], StepGrad(1)))
               /\ RLe(a, RampedAlpha(alpha, T, steps + 1))
               /\ (steps < T /\ T >= 2) => RLt(a, alpha)
               /\ (steps >= T \/ T = 1) => a = alpha]_vars

\* the first step of an average kept with init_period = 1
C21_Witness ==
    /\ Ramping /\ call.args.init_period = Some(1) /\ steps = 1
    /\ store[EmaState] = RMul(RSub(One, call.args.alpha[2]), history[1][1])

---------------------------------------------------------------------------
(* C22: what the burnout leaves alone *)

\* the long rule of a call with a burnout, as the call invoked it
LongRule ==
    lr_decay(call.args.updates_fn, call.loss_or_grads, call.params,
             call.learning_rate, BurnoutArgs(call.args.updates_fn),
             call.decay_period, call.decay_factor)

\* the keys of the long dictionary only, and of the initial one only
LongOnlyKeys == ODKeys(given.updates) \ ODKeys(given.initial)

InitialOnlyKeys == ODKeys(given.initial) \ ODKeys(given.updates)

\* C22: with burnout = B > 0, the keys of the result are those of the long
\* dictionary and the counter, so a key of the initial dictionary only is
\* not among them and its variable is never written; and a variable that
\* is a key of the long dictionary only keeps its value in each of the
\* first B steps, so before step B it still has the value it was created
\* with: the long rule starts there from its initial state.
C22_BurnoutFreezesLongState ==
    [][(phase = "built" /\ call.fn \in {"wrap_with_burnout", "apply_burnout"}
            /\ call.burnout > 0 /\ steps' = steps + 1) =>
         /\ Keys = ODKeys(given.updates) \cup {BurnoutCell}
         /\ \A k \in InitialOnlyKeys : k \notin Keys /\ store'[k] = store[k]
         /\ \A k \in LongOnlyKeys :
               /\ steps < call.burnout => store'[k] = store[k]
               /\ steps <= call.burnout => store[k] = LongRule.created[k]]_vars

\* adagrad after the two steps of a burnout of 2 that used sgd with a
\* decaying rate: the parameter has moved, the accumulator is still 0 and
\* the rate of the initial dictionary was never decayed
C22_Witness ==
    /\ phase = "built" /\ call.fn = "apply_burnout" /\ call.burnout = 2 /\ steps = 2
    /\ call.args.updates_fn = "adagrad" /\ call.params = <<P1>>
    /\ LearningRateCell \in InitialOnlyKeys
    /\ store[LearningRateCell] = call.learning_rate[2]
    /\ Shared("accu", 1) \in LongOnlyKeys
    /\ store[Shared("accu", 1)] = Zero
    /\ store[P1] # CallerStore[P1]

===========================================================================
